---- MODULE Spec2Model ----
(***************************************************************************)
(* bun-storage: the Storage engine of src/src/index.ts, a Storage-shaped   *)
(* key-value store on one SQLite table `kv (key text unique, value text)`, *)
(* with quota accounting and change events emitted on an EventEmitter.     *)
(*                                                                         *)
(* Text is a sequence of UTF-16 code units (naturals), so that `.length`   *)
(* is Len and the ordering of keys is definable.  A JavaScript value is a  *)
(* record tagged by its type.                                              *)
(***************************************************************************)
EXTENDS Integers, Sequences, FiniteSets, TLC

VARIABLES kv, quota, fileName, listeners, call, events, deliveries, files,
          exitHooks, closed, auto

vars == <<kv, quota, fileName, listeners, call, events, deliveries, files,
          exitHooks, closed, auto>>

----------------------------------------------------------------------------
(* Bounds of the model *)

\* largest configured quota (bytes) that Init draws
MaxQuota == 12

\* largest number of listeners registered on the emitter
MaxListeners == 1

\* largest integer index given to key()
MaxIndex == 3

\* largest number of listeners when listeners call the store
MaxHandlers == 2

----------------------------------------------------------------------------
(* Text literals, as UTF-16 code units *)

T_empty == <<>>
T_a == <<97>>
T_x == <<120>>
T_demo == <<100, 101, 109, 111>>
T_true == <<116, 114, 117, 101>>
T_false == <<102, 97, 108, 115, 101>>
T_null == <<110, 117, 108, 108>>
T_undefined == <<117, 110, 100, 101, 102, 105, 110, 101, 100>>
T_object == <<91, 111, 98, 106, 101, 99, 116, 32, 79, 98, 106, 101, 99, 116, 93>>
T_minus == <<45>>
T_point == <<46>>
T_e == <<101>>
T_NaN == <<78, 97, 78>>
T_b == <<98>>
T_ab == <<97, 98>>
T_abc == <<97, 98, 99>>
T_space == <<32>>

(* The texts of the error messages *)

\* 'getItem'
T_getItem ==
    <<103, 101, 116, 73, 116, 101, 109>>

\* 'key'
T_key ==
    <<107, 101, 121>>

\* 'removeItem'
T_removeItem ==
    <<114, 101, 109, 111, 118, 101, 73, 116, 101, 109>>

\* 'setItem'
T_setItem ==
    <<115, 101, 116, 73, 116, 101, 109>>

\* 'Storage'
T_Storage ==
    <<83, 116, 111, 114, 97, 103, 101>>

\* 'Failed to execute "'
T_FailedToExecute ==
    <<70, 97, 105, 108, 101, 100, 32, 116, 111, 32, 101, 120, 101, 99, 117,
      116, 101, 32, 34>>

\* '" on "'
T_On ==
    <<34, 32, 111, 110, 32, 34>>

\* '": '
T_Colon ==
    <<34, 58, 32>>

\* ' arguments required, but only '
T_ArgumentsRequired ==
    <<32, 97, 114, 103, 117, 109, 101, 110, 116, 115, 32, 114, 101, 113,
      117, 105, 114, 101, 100, 44, 32, 98, 117, 116, 32, 111, 110, 108,
      121, 32>>

\* ' present.'
T_Present ==
    <<32, 112, 114, 101, 115, 101, 110, 116, 46>>

\* "Failed to execute 'setItem' on 'Storage': Setting the value of '"
T_SettingTheValueOf ==
    <<70, 97, 105, 108, 101, 100, 32, 116, 111, 32, 101, 120, 101, 99, 117,
      116, 101, 32, 39, 115, 101, 116, 73, 116, 101, 109, 39, 32, 111, 110,
      32, 39, 83, 116, 111, 114, 97, 103, 101, 39, 58, 32, 83, 101, 116,
      116, 105, 110, 103, 32, 116, 104, 101, 32, 118, 97, 108, 117, 101,
      32, 111, 102, 32, 39>>

\* "' exceeded the quota."
T_ExceededTheQuota ==
    <<39, 32, 101, 120, 99, 101, 101, 100, 101, 100, 32, 116, 104, 101, 32,
      113, 117, 111, 116, 97, 46>>

\* 'The emitter option must be an instance of EventEmitter.'
T_EmitterOption ==
    <<84, 104, 101, 32, 101, 109, 105, 116, 116, 101, 114, 32, 111, 112,
      116, 105, 111, 110, 32, 109, 117, 115, 116, 32, 98, 101, 32, 97, 110,
      32, 105, 110, 115, 116, 97, 110, 99, 101, 32, 111, 102, 32, 69, 118,
      101, 110, 116, 69, 109, 105, 116, 116, 101, 114, 46>>

\* what the runtime says when `options.emitter` is read of no options
T_NotAnObject ==
    <<117, 110, 100, 101, 102, 105, 110, 101, 100, 32, 105, 115, 32, 110,
      111, 116, 32, 97, 110, 32, 111, 98, 106, 101, 99, 116, 32, 40, 101,
      118, 97, 108, 117, 97, 116, 105, 110, 103, 32, 39, 111, 112, 116,
      105, 111, 110, 115, 46, 101, 109, 105, 116, 116, 101, 114, 39, 41>>

(* JavaScript values: a record tagged by its type; the payload field is named
   by the kind of its value (v a text, n an integer, b a boolean) *)

JSNull == [type |-> "null"]
JSUndefined == [type |-> "undefined"]
JSObject == [type |-> "object"]
JSString(t) == [type |-> "string", v |-> t]
JSNumber(n) == [type |-> "number", n |-> n]
JSBigInt(n) == [type |-> "bigint", n |-> n]
JSBoolean(b) == [type |-> "boolean", b |-> b]

\* a number that is no integer: n * 10^e, with n > 0 no multiple of 10 and e < 0
JSDecimal(n, e) == [type |-> "number", n |-> n, e |-> e]

\* NaN, the number that parseInt returns for a text without digits
JSNaN == [type |-> "number", nan |-> TRUE]

\* decimal text of a natural number
RECURSIVE Digits(_)
Digits(n) == IF n < 10 THEN <<48 + n>> ELSE Digits(n \div 10) \o <<48 + (n % 10)>>

\* decimal text of an integer
DecimalText(n) == IF n < 0 THEN T_minus \o Digits(0 - n) ELSE Digits(n)

\* a text of k zeros
RECURSIVE Zeros(_)
Zeros(k) == IF k <= 0 THEN <<>> ELSE <<48>> \o Zeros(k - 1)

\* Number::toString of n * 10^e (n > 0, e < 0): with k the number of digits of n
\* and p = k + e the place of the decimal point, the digits with a point in
\* them when p > 0, "0." and zeros when -6 < p <= 0, and the exponential form
\* d[.ddd]e-x otherwise
NumberToText(n, e) ==
    LET digits == Digits(n)
        k == Len(digits)
        p == k + e
    IN IF p > 0
       THEN SubSeq(digits, 1, p) \o T_point \o SubSeq(digits, p + 1, k)
       ELSE IF p > -6
       THEN <<48>> \o T_point \o Zeros(0 - p) \o digits
       ELSE IF k = 1
       THEN digits \o T_e \o T_minus \o Digits(1 - p)
       ELSE <<digits[1]>> \o T_point \o SubSeq(digits, 2, k) \o T_e \o T_minus
                \o Digits(1 - p)

\* `x ?? ''` before String: null and undefined become the empty text
ToText_NullishAsEmpty(x) ==
    CASE x.type = "string" -> x.v
      [] x.type = "number" ->
            IF "nan" \in DOMAIN x THEN T_NaN
            ELSE IF "e" \in DOMAIN x THEN NumberToText(x.n, x.e)
            ELSE DecimalText(x.n)
      [] x.type = "bigint" -> DecimalText(x.n)
      [] x.type = "boolean" -> IF x.b THEN T_true ELSE T_false
      [] x.type = "null" -> T_empty
      [] x.type = "undefined" -> T_empty
      [] x.type = "object" -> T_object

\* String(x): the default stringification of a JavaScript value
ToText(x) ==
    CASE x.type = "string" -> x.v
      [] x.type = "number" ->
            IF "nan" \in DOMAIN x THEN T_NaN
            ELSE IF "e" \in DOMAIN x THEN NumberToText(x.n, x.e)
            ELSE DecimalText(x.n)
      [] x.type = "bigint" -> DecimalText(x.n)
      [] x.type = "boolean" -> IF x.b THEN T_true ELSE T_false
      [] x.type = "null" -> T_null
      [] x.type = "undefined" -> T_undefined
      [] x.type = "object" -> T_object

\* the code units that parseInt skips at the start of its text (white space)
WhiteSpace == {9, 10, 11, 12, 13, 32}

RECURSIVE SkipWhiteSpace(_)
SkipWhiteSpace(t) ==
    IF t # <<>> /\ t[1] \in WhiteSpace THEN SkipWhiteSpace(Tail(t)) ELSE t

\* the number of decimal digits that a text starts with
RECURSIVE LeadingDigits(_)
LeadingDigits(t) ==
    IF t # <<>> /\ t[1] \in 48..57 THEN 1 + LeadingDigits(Tail(t)) ELSE 0

\* the value of a text of decimal digits
RECURSIVE DigitsValue(_)
DigitsValue(t) ==
    IF t = <<>> THEN 0 ELSE 10 * DigitsValue(SubSeq(t, 1, Len(t) - 1)) + (t[Len(t)] - 48)

\* Number.parseInt(text, 10): white space, a sign, then the longest run of
\* digits; NaN when there is no digit
ParseInt(t) ==
    LET s == SkipWhiteSpace(t)
        signed == s # <<>> /\ s[1] \in {43, 45}
        body == IF signed THEN Tail(s) ELSE s
        nd == LeadingDigits(body)
        value == DigitsValue(SubSeq(body, 1, nd))
    IN IF nd = 0 THEN JSNaN
       ELSE IF signed /\ s[1] = 45 THEN JSNumber(0 - value)
       ELSE JSNumber(value)

\* `number || 0`: NaN and 0 are falsy
OrZero(x) == IF x = JSNaN \/ x.n = 0 THEN 0 ELSE x.n

\* truthiness of a value that is a string or null (`oldValue ? .. : ..`)
Truthy(x) == x # JSNull /\ ~(x.type = "string" /\ x.v = T_empty)

----------------------------------------------------------------------------
(* The inputs of the calls *)

EngineNames == {"sessionStorage", "localStorage"}

Keys == {T_a, T_demo}

KeyInputs == {JSString(k) : k \in Keys}

TextInputs == {JSString(T_empty), JSString(T_x)}

ValueInputs ==
    TextInputs \cup
    {JSNumber(1), JSBoolean(TRUE), JSNull, JSUndefined, JSObject, JSBigInt(1)}

Quotas == {JSUndefined} \cup {JSNumber(q) : q \in 0..MaxQuota}

ListenerKinds == {"ok", "throw"}

----------------------------------------------------------------------------
(* The kv table: a set of rows *)

Row(k, v) == [key |-> k, value |-> v]

\* DELETE FROM kv, prepared and never run
DeleteAll_NotRun(table) == table

\* DELETE FROM kv
DeleteAll(table) == {}

\* SELECT value FROM kv WHERE key = ?  (.get: the first row, or undefined)
SelectValue(table, k) ==
    IF \E r \in table : r.key = k
    THEN JSString((CHOOSE r \in table : r.key = k).value)
    ELSE JSUndefined

\* DELETE FROM kv, without the WHERE clause
DeleteWhere_Unconditional(table, k) == {}

\* DELETE FROM kv WHERE key = ?
DeleteWhere(table, k) == {r \in table : r.key # k}

\* INSERT OR IGNORE in place of REPLACE: an existing row keeps its value
ReplaceInto_InsertOrIgnore(table, k, v) ==
    IF \E r \in table : r.key = k THEN table ELSE table \cup {Row(k, v)}

\* INSERT into a table without the unique constraint: the old row stays
ReplaceInto_Insert(table, k, v) == table \cup {Row(k, v)}

\* REPLACE INTO kv (key, value) VALUES (?, ?), under the unique constraint on key
ReplaceInto(table, k, v) == {r \in table : r.key # k} \cup {Row(k, v)}

\* a < b in the order of ORDER BY key (BINARY collation: code unit by code
\* unit, a proper prefix first)
TextLess(a, b) ==
    \E i \in 1..(Len(b)) :
        /\ \A j \in 1..(i - 1) : j <= Len(a) /\ a[j] = b[j]
        /\ \/ i > Len(a)
           \/ i <= Len(a) /\ a[i] < b[i]

\* the rows in descending order of key
RECURSIVE OrderByKey_Desc(_)
OrderByKey_Desc(rows) ==
    IF rows = {} THEN <<>>
    ELSE LET first == CHOOSE r \in rows : \A q \in rows : ~TextLess(r.key, q.key)
         IN <<first>> \o OrderByKey_Desc(rows \ {first})

\* the rows in ascending order of key
RECURSIVE OrderByKey(_)
OrderByKey(rows) ==
    IF rows = {} THEN <<>>
    ELSE LET first == CHOOSE r \in rows : \A q \in rows : ~TextLess(q.key, r.key)
         IN <<first>> \o OrderByKey(rows \ {first})

\* SELECT key FROM kv ORDER BY key LIMIT 1 OFFSET ?  (.get: the row, or
\* undefined); SQLite takes a negative OFFSET as 0
SelectKeyAt(table, offset) ==
    LET sorted == OrderByKey(table)
        skip == IF offset < 0 THEN 0 ELSE offset
    IN IF skip + 1 <= Len(sorted) THEN JSString(sorted[skip + 1].key) ELSE JSUndefined

\* SELECT COUNT(DISTINCT value) FROM kv
CountRows_DistinctValues(table) == Cardinality({r.value : r \in table})

\* SELECT COUNT(*) FROM kv
CountRows(table) == Cardinality(table)

RECURSIVE SumSizes(_)
SumSizes(rows) ==
    IF rows = {} THEN 0
    ELSE LET r == CHOOSE r \in rows : TRUE
         IN (Len(r.key) + Len(r.value)) * 2 + SumSizes(rows \ {r})

\* #calculateSize
calculateSize(table) == SumSizes(table)

\* Object.fromEntries(rows.map(({key, value}) => [key, value]))
FromEntries(rows) ==
    [k \in {r.key : r \in rows} |-> (CHOOSE r \in rows : r.key = k).value]

----------------------------------------------------------------------------
(* The emitter *)

\* how an emit ends: the table as the handlers left it, the events published
\* and the deliveries made by the calls of the handlers, whether a listener
\* threw, and how many listeners were called
Handled(table, evs, dels, threw, invoked) ==
    [table |-> table, events |-> evs, deliveries |-> dels, threw |-> threw,
     invoked |-> invoked]

----------------------------------------------------------------------------
(* The methods of Storage, as functions of the table, the quota, the        *)
(* listeners and the arguments; the result is the table after the call, the *)
(* events emitted by it and how the call ended                              *)

\* error is the name of the error thrown and message its text, or "none" and
\* the empty text
Outcome(table, evs, outcome, error, result) ==
    [table |-> table, events |-> evs, outcome |-> outcome, error |-> error,
     message |-> T_empty, result |-> result, deliveries |-> <<>>]

Throw(table, error) == Outcome(table, <<>>, "threw", error, JSUndefined)

\* `Failed to execute "${operation}" on "${this.constructor.name}": ${required}
\* arguments required, but only ${args.length} present.`
ArityMessage(operation, required, args) ==
    T_FailedToExecute \o operation \o T_On \o T_Storage \o T_Colon
        \o DecimalText(required) \o T_ArgumentsRequired
        \o DecimalText(Len(args)) \o T_Present

\* throw new TypeError(...) of the arity check
ThrowArity(table, operation, required, args) ==
    [Throw(table, "TypeError") EXCEPT !.message = ArityMessage(operation, required, args)]

\* `Failed to execute 'setItem' on 'Storage': Setting the value of '${keyName}'
\* exceeded the quota.`
QuotaMessage(keyName) == T_SettingTheValueOf \o ToText(keyName) \o T_ExceededTheQuota

\* throw error, without the assignment to error.name
ThrowQuota_Unnamed(table, keyName) ==
    [Throw(table, "Error") EXCEPT !.message = QuotaMessage(keyName)]

\* throw error, with error.name = 'QuotaExceededError'
ThrowQuota(table, keyName) ==
    [Throw(table, "QuotaExceededError") EXCEPT !.message = QuotaMessage(keyName)]

Return(table, result) == Outcome(table, <<>>, "returned", "none", result)

\* the payload built by #dispatchEvent from the table as it is now
EventPayload(table, k, newValue, oldValue) ==
    [key |-> IF k = JSNull THEN JSNull ELSE k,
     newValue |-> IF newValue = JSNull THEN JSNull ELSE JSString(ToText(newValue)),
     oldValue |-> oldValue,
     storageArea |-> FromEntries(table),
     url |-> JSUndefined]

\* getItem that returns `item.value || null`: null for a stored empty text
getItem_EmptyAsNull(table, args) ==
    IF Len(args) # 1 THEN ThrowArity(table, T_getItem, 1, args)
    ELSE LET item == SelectValue(table, args[1].v)
         IN IF item = JSUndefined \/ item.v = T_empty
            THEN Return(table, JSNull)
            ELSE Return(table, item)

\* getItem(...args)
getItem(table, args) ==
    IF Len(args) # 1 THEN ThrowArity(table, T_getItem, 1, args)
    ELSE LET item == SelectValue(table, args[1].v)
         IN IF item = JSUndefined
            THEN Return(table, JSNull)     \* item.value throws, caught
            ELSE Return(table, item)

\* EventEmitter.emit: the listeners run in order of registration, in line,
\* each to its end before the next; an exception is not caught and ends the
\* emit.  A listener of kind "ok" returns, one of kind "throw" throws, and one
\* of kind "revert" answers the event of a setItem by
\* storage.removeItem(event.key), whose statements are those of removeItem
\* and #dispatchEvent, and lets an exception of it pass.  after[i] is the emit
\* after the first i listeners.
RECURSIVE emit(_, _, _)
emit(table, ls, payload) ==
    LET Removed(t) ==
            LET keyName == payload.key
                oldValue == getItem(t, <<keyName>>).result
                deleted == DeleteWhere(t, keyName.v)
                event == EventPayload(deleted, keyName, JSNull, oldValue)
                e == emit(deleted, ls, event)
            IN Handled(e.table,
                       <<[topic |-> "storage", payload |-> event,
                          invoked |-> e.invoked]>> \o e.events,
                       e.deliveries, e.threw, 0)
        Handle(kind, t) ==
            IF kind = "throw" THEN Handled(t, <<>>, <<>>, TRUE, 0)
            ELSE IF kind = "revert" /\ payload.newValue # JSNull THEN Removed(t)
            ELSE Handled(t, <<>>, <<>>, FALSE, 0)
        after[i \in 0..Len(ls)] ==
            IF i = 0 THEN Handled(table, <<>>, <<>>, FALSE, 0)
            ELSE IF after[i - 1].threw THEN after[i - 1]
            ELSE LET h == Handle(ls[i], after[i - 1].table)
                 IN Handled(h.table,
                            after[i - 1].events \o h.events,
                            after[i - 1].deliveries
                                \o <<[listener |-> i, payload |-> payload]>>
                                \o h.deliveries,
                            h.threw, i)
    IN after[Len(ls)]

\* #dispatchEvent that emits its event once for each of the two engines on
\* the emitter
dispatchEvent_PerEngine(table, ls, k, newValue, oldValue) ==
    LET payload == EventPayload(table, k, newValue, oldValue)
        first == emit(table, ls, payload)
        second == IF first.threw THEN first ELSE emit(first.table, ls, payload)
        one == [topic |-> "storage", payload |-> payload, invoked |-> first.invoked]
    IN [Outcome(second.table,
                <<one>> \o first.events \o <<one>> \o second.events,
                IF second.threw THEN "threw" ELSE "returned",
                IF second.threw THEN "ListenerError" ELSE "none",
                JSUndefined)
            EXCEPT !.deliveries = first.deliveries \o second.deliveries]

\* #dispatchEvent with the emit in a try block whose catch is empty
dispatchEvent_CatchListener(table, ls, k, newValue, oldValue) ==
    LET payload == EventPayload(table, k, newValue, oldValue)
        e == emit(table, ls, payload)
    IN [Outcome(e.table,
                <<[topic |-> "storage", payload |-> payload, invoked |-> e.invoked]>>
                    \o e.events,
                "returned", "none", JSUndefined)
            EXCEPT !.deliveries = e.deliveries]

\* #dispatchEvent: snapshot, build the payload, emit; the method then returns.
\* The events are in the order in which they were published, the deliveries in
\* the order in which the listeners were called.
dispatchEvent(table, ls, k, newValue, oldValue) ==
    LET payload == EventPayload(table, k, newValue, oldValue)
        e == emit(table, ls, payload)
    IN [Outcome(e.table,
                <<[topic |-> "storage", payload |-> payload, invoked |-> e.invoked]>>
                    \o e.events,
                IF e.threw THEN "threw" ELSE "returned",
                IF e.threw THEN "ListenerError" ELSE "none",
                JSUndefined)
            EXCEPT !.deliveries = e.deliveries]

\* clear() that is refused, as a write is, while the usage is above the
\* largest quota
clear_QuotaChecked(table, ls) ==
    IF calculateSize(table) > MaxQuota THEN Throw(table, "QuotaExceededError")
    ELSE dispatchEvent(DeleteAll(table), ls, JSNull, JSNull, JSNull)

\* clear() that publishes nothing when there was nothing to delete
clear_SilentWhenEmpty(table, ls) ==
    IF table = {} THEN Return(table, JSUndefined)
    ELSE dispatchEvent(DeleteAll(table), ls, JSNull, JSNull, JSNull)

\* clear()
clear(table, ls) ==
    dispatchEvent(DeleteAll(table), ls, JSNull, JSNull, JSNull)

\* key(...args) that deletes the row whose key it returns
key_Take(table, args) ==
    IF Len(args) # 1 THEN ThrowArity(table, T_key, 1, args)
    ELSE LET normalizedIndex == OrZero(ParseInt(ToText(args[1])))
             item == SelectKeyAt(table, normalizedIndex)
         IN IF item = JSUndefined THEN Return(table, JSNull)
            ELSE Return(DeleteWhere(table, item.v), item)

\* key(...args)
key(table, args) ==
    IF Len(args) # 1 THEN ThrowArity(table, T_key, 1, args)
    ELSE LET normalizedIndex == OrZero(ParseInt(ToText(args[1])))
             item == SelectKeyAt(table, normalizedIndex)
         IN IF item = JSUndefined THEN Return(table, JSNull) ELSE Return(table, item)

\* get length()
length(table) ==
    Return(table, ParseInt(DecimalText(CountRows(table))))

\* removeItem that takes the snapshot of the event before its delete
removeItem_SnapshotBeforeDelete(table, ls, args) ==
    IF Len(args) # 1 THEN ThrowArity(table, T_removeItem, 1, args)
    ELSE LET keyName == args[1]
             oldValue == getItem(table, <<keyName>>).result
         IN [dispatchEvent(table, ls, keyName, JSNull, oldValue)
                EXCEPT !.table = DeleteWhere(table, keyName.v)]

\* removeItem that reads `item.value` of the missing row outside the try
removeItem_ThrowWhenAbsent(table, ls, args) ==
    IF Len(args) # 1 THEN ThrowArity(table, T_removeItem, 1, args)
    ELSE LET keyName == args[1]
             oldValue == getItem(table, <<keyName>>).result
         IN IF SelectValue(table, keyName.v) = JSUndefined THEN Throw(table, "TypeError")
            ELSE dispatchEvent(DeleteWhere(table, keyName.v), ls, keyName, JSNull, oldValue)

\* removeItem without its arity check: a missing keyName is undefined
removeItem_ArityUnchecked(table, ls, args) ==
    LET keyName == IF Len(args) = 0 THEN JSString(T_undefined) ELSE args[1]
        oldValue == getItem(table, <<keyName>>).result
    IN dispatchEvent(DeleteWhere(table, keyName.v), ls, keyName, JSNull, oldValue)

\* removeItem that publishes nothing when the key is not in the store
removeItem_SilentWhenAbsent(table, ls, args) ==
    IF Len(args) # 1 THEN ThrowArity(table, T_removeItem, 1, args)
    ELSE LET keyName == args[1]
             oldValue == getItem(table, <<keyName>>).result
         IN IF oldValue = JSNull THEN Return(table, JSUndefined)
            ELSE dispatchEvent(DeleteWhere(table, keyName.v), ls, keyName, JSNull, oldValue)

\* removeItem(...args)
removeItem(table, ls, args) ==
    IF Len(args) # 1 THEN ThrowArity(table, T_removeItem, 1, args)
    ELSE LET keyName == args[1]
             oldValue == getItem(table, <<keyName>>).result
         IN dispatchEvent(DeleteWhere(table, keyName.v), ls, keyName, JSNull, oldValue)

\* oldSize of setItem
OldSize(keyName, oldValue) ==
    IF Truthy(oldValue) THEN (Len(ToText(keyName)) + Len(oldValue.v)) * 2 ELSE 0

\* newSize of setItem
NewSize(keyName, keyValue) ==
    (Len(ToText(keyName)) + Len(ToText(keyValue))) * 2

\* a quota check that charges the new entry alone, not the rest of the store
QuotaExceeded_NewSizeOnly(table, q, keyName, keyValue, oldValue) ==
    /\ q # JSUndefined
    /\ NewSize(keyName, keyValue) > q.n

\* a quota check that rejects a total equal to the quota (>= for >)
QuotaExceeded_AtLeast(table, q, keyName, keyValue, oldValue) ==
    /\ q # JSUndefined
    /\ calculateSize(table) - OldSize(keyName, oldValue) + NewSize(keyName, keyValue) >= q.n

\* a quota check that takes an unset quota as 0 (`this.#quota ?? 0`)
QuotaExceeded_UnsetIsZero(table, q, keyName, keyValue, oldValue) ==
    calculateSize(table) - OldSize(keyName, oldValue) + NewSize(keyName, keyValue)
        > (IF q = JSUndefined THEN 0 ELSE q.n)

\* a quota check for a budget that the two stores of createStorage share
\* evenly
QuotaExceeded_SplitBudget(table, q, keyName, keyValue, oldValue) ==
    /\ q # JSUndefined
    /\ calculateSize(table) - OldSize(keyName, oldValue) + NewSize(keyName, keyValue)
            > q.n \div 2

\* the quota check of setItem
QuotaExceeded(table, q, keyName, keyValue, oldValue) ==
    /\ q # JSUndefined
    /\ calculateSize(table) - OldSize(keyName, oldValue) + NewSize(keyName, keyValue) > q.n

\* setItem that writes first and checks the quota afterwards, without undoing
setItem_WriteBeforeQuota(table, q, ls, args) ==
    IF Len(args) # 2 THEN ThrowArity(table, T_setItem, 2, args)
    ELSE LET keyName == args[1]
             keyValue == args[2]
             oldValue == getItem(table, <<keyName>>).result
             written == ReplaceInto(table, ToText(keyName), ToText(keyValue))
         IN IF QuotaExceeded(table, q, keyName, keyValue, oldValue)
            THEN ThrowQuota(written, keyName)
            ELSE dispatchEvent(written, ls, keyName, keyValue, oldValue)

\* setItem that reads oldValue after its write
setItem_OldValueAfterWrite(table, q, ls, args) ==
    IF Len(args) # 2 THEN ThrowArity(table, T_setItem, 2, args)
    ELSE LET keyName == args[1]
             keyValue == args[2]
             written == ReplaceInto(table, ToText(keyName), ToText(keyValue))
         IN IF QuotaExceeded(table, q, keyName, keyValue, getItem(table, <<keyName>>).result)
            THEN ThrowQuota(table, keyName)
            ELSE dispatchEvent(written, ls, keyName, keyValue,
                               getItem(written, <<keyName>>).result)

\* setItem whose event is emitted under a name that no listener is on
setItem_EmitElsewhere(table, q, ls, args) ==
    IF Len(args) # 2 THEN ThrowArity(table, T_setItem, 2, args)
    ELSE LET keyName == args[1]
             keyValue == args[2]
             oldValue == getItem(table, <<keyName>>).result
         IN IF QuotaExceeded(table, q, keyName, keyValue, oldValue)
            THEN ThrowQuota(table, keyName)
            ELSE dispatchEvent(ReplaceInto(table, ToText(keyName), ToText(keyValue)),
                               <<>>, keyName, keyValue, oldValue)

\* setItem(...args)
setItem(table, q, ls, args) ==
    IF Len(args) # 2 THEN ThrowArity(table, T_setItem, 2, args)
    ELSE LET keyName == args[1]
             keyValue == args[2]
             oldValue == getItem(table, <<keyName>>).result
         IN IF QuotaExceeded(table, q, keyName, keyValue, oldValue)
            THEN ThrowQuota(table, keyName)
            ELSE dispatchEvent(ReplaceInto(table, ToText(keyName), ToText(keyValue)),
                               ls, keyName, keyValue, oldValue)

----------------------------------------------------------------------------
(* The state machine: one engine, its emitter and the calls made on it *)

\* argument lists of the calls, the wrong arities included
OneKeyArgs == {<<>>} \cup {<<k>> : k \in KeyInputs} \cup {<<k, k>> : k \in KeyInputs}

SetItemArgs ==
    {<<>>} \cup {<<k>> : k \in KeyInputs}
           \cup {<<k, x>> : k \in KeyInputs, x \in ValueInputs}
           \cup {<<k, x, x>> : k \in KeyInputs, x \in TextInputs}

\* the automatic setup of auto.ts in a process that does not import it: not
\* started, with neither name on the global object
NoAuto ==
    [pc |-> "none", directory |-> TRUE,
     globalThis |-> [localStorage |-> "absent", sessionStorage |-> "absent"]]

\* the names of the database files
FileNames == {"db.sqlite"}

\* a file that is not there, and a file with the rows of its table kv
NoFile == [exists |-> FALSE, rows |-> {}]

FileWith(rows) == [exists |-> TRUE, rows |-> rows]

\* the files after the engines of the given file names were constructed in a
\* directory without files
Opened(names) ==
    [n \in FileNames |->
        IF \E s \in DOMAIN names : names[s] = n THEN FileWith({}) ELSE NoFile]

\* new Database(':memory:') opens one database for all connections
Database_SharedMemory(e, name) == <<name>>

\* new Database(fileName): the database that the connection of engine e is on,
\* the file of that name, or for ':memory:' a database private to the connection
Database(e, name) == IF name \in {":memory:", ""} THEN <<name, e>> ELSE <<name>>

\* a call of engine e: its statements run on the database of e, and every
\* engine on that database sees the rows
Called(op, e, args, out) ==
    /\ kv' = [s \in DOMAIN kv |->
                IF Database(s, fileName[s]) = Database(e, fileName[e])
                THEN out.table ELSE kv[s]]
    /\ events' = out.events
    /\ deliveries' = out.deliveries
    /\ files' = [n \in DOMAIN files |->
                    IF n = fileName[e] THEN FileWith(out.table)
                    ELSE files[n]]
    /\ call' = [op |-> op, engine |-> e, args |-> args, outcome |-> out.outcome,
                error |-> out.error, message |-> out.message, result |-> out.result,
                pre |-> kv[e]]
    /\ UNCHANGED <<quota, fileName, listeners, exitHooks, closed, auto>>

\* the file name that a test gives each engine built with `new Storage`
FileOf(e) == IF e = "sessionStorage" THEN ":memory:" ELSE "db.sqlite"

Init ==
    /\ \E e \in EngineNames : kv = [s \in {e} |-> {}]
    /\ \E q \in Quotas : quota = [s \in DOMAIN kv |-> q]
    /\ fileName = [s \in DOMAIN kv |-> FileOf(s)]
    /\ listeners = <<>>
    /\ events = <<>>
    /\ deliveries = <<>>
    /\ files = Opened(fileName)
    /\ exitHooks = DOMAIN kv
    /\ closed = {}
    /\ auto = NoAuto
    /\ call = [op |-> "new", engine |-> CHOOSE s \in DOMAIN kv : TRUE, args |-> <<>>,
               outcome |-> "returned", error |-> "none", message |-> T_empty,
               result |-> JSUndefined,
               pre |-> {}]

Clear ==
    \E e \in DOMAIN kv : Called("clear", e, <<>>, clear(kv[e], listeners))

GetItem ==
    \E e \in DOMAIN kv, args \in OneKeyArgs :
        Called("getItem", e, args, getItem(kv[e], args))

RemoveItem ==
    \E e \in DOMAIN kv, args \in OneKeyArgs :
        Called("removeItem", e, args, removeItem(kv[e], listeners, args))

SetItem ==
    \E e \in DOMAIN kv, args \in SetItemArgs :
        Called("setItem", e, args, setItem(kv[e], quota[e], listeners, args))

\* emitter.addListener('storage', fn)
AddListener ==
    /\ Len(listeners) < MaxListeners
    /\ \E kind \in ListenerKinds : listeners' = Append(listeners, kind)
    /\ UNCHANGED <<kv, quota, fileName, call, events, deliveries, files, exitHooks,
                   closed, auto>>

\* emitter.removeAllListeners()
RemoveAllListeners ==
    /\ listeners # <<>>
    /\ listeners' = <<>>
    /\ UNCHANGED <<kv, quota, fileName, call, events, deliveries, files, exitHooks,
                   closed, auto>>

Next ==
    \/ Clear
    \/ GetItem
    \/ RemoveItem
    \/ SetItem
    \/ AddListener
    \/ RemoveAllListeners

Spec == Init /\ [][Next]_vars

----------------------------------------------------------------------------
(* One engine with three keys, for the order of key(n) *)

OrderKeys == {T_a, T_ab, T_b}

OrderKeyInputs == {JSString(k) : k \in OrderKeys}

\* the indices given to key()
IndexInputs ==
    {JSNumber(i) : i \in -1..MaxIndex}
        \cup {JSDecimal(1, -1), JSDecimal(11, -1), JSDecimal(1, -7)}
        \cup {JSString(T_abc), JSString(T_space \o Digits(1) \o T_x), JSNull, JSUndefined}

KeyArgs == {<<>>} \cup {<<i>> : i \in IndexInputs} \cup {<<JSNumber(0), JSNumber(0)>>}

InitOrder ==
    /\ kv = [s \in {"localStorage"} |-> {}]
    /\ \E q \in {JSUndefined, JSNumber(MaxQuota)} : quota = [s \in DOMAIN kv |-> q]
    /\ fileName = [s \in DOMAIN kv |-> FileOf(s)]
    /\ listeners = <<>>
    /\ events = <<>>
    /\ deliveries = <<>>
    /\ files = Opened(fileName)
    /\ exitHooks = DOMAIN kv
    /\ closed = {}
    /\ auto = NoAuto
    /\ call = [op |-> "new", engine |-> "localStorage", args |-> <<>>,
               outcome |-> "returned", error |-> "none", message |-> T_empty,
               result |-> JSUndefined,
               pre |-> {}]

Key ==
    \E e \in DOMAIN kv, args \in KeyArgs :
        Called("key", e, args, key(kv[e], args))

Length ==
    \E e \in DOMAIN kv : Called("length", e, <<>>, length(kv[e]))

GetItemOrder ==
    \E e \in DOMAIN kv, k \in OrderKeyInputs :
        Called("getItem", e, <<k>>, getItem(kv[e], <<k>>))

RemoveItemOrder ==
    \E e \in DOMAIN kv, k \in OrderKeyInputs :
        Called("removeItem", e, <<k>>, removeItem(kv[e], listeners, <<k>>))

SetItemOrder ==
    \E e \in DOMAIN kv, k \in OrderKeyInputs, x \in TextInputs :
        Called("setItem", e, <<k, x>>, setItem(kv[e], quota[e], listeners, <<k, x>>))

NextOrder ==
    \/ Clear
    \/ Key
    \/ Length
    \/ GetItemOrder
    \/ RemoveItemOrder
    \/ SetItemOrder
    \/ AddListener
    \/ RemoveAllListeners

SpecOrder == InitOrder /\ [][NextOrder]_vars

----------------------------------------------------------------------------
(* One engine and the calls of all six operations *)

InitCalls ==
    /\ Init
    /\ DOMAIN kv = {"localStorage"}
    /\ \E q \in {JSUndefined, JSNumber(MaxQuota)} : quota = [s \in DOMAIN kv |-> q]

NextCalls ==
    \/ Next
    \/ Key
    \/ Length

SpecCalls == InitCalls /\ [][NextCalls]_vars

----------------------------------------------------------------------------
(* The two engines of createStorage(fileName), on one emitter *)

\* createStorage(fileName = ':memory:'): the file name of each engine
createStorage(name) == [sessionStorage |-> ":memory:", localStorage |-> name]

InitStorages ==
    /\ kv = [s \in EngineNames |-> {}]
    /\ \E q \in {JSUndefined, JSNumber(MaxQuota)} : quota = [s \in EngineNames |-> q]
    /\ \E name \in {":memory:", "db.sqlite"} : fileName = createStorage(name)
    /\ listeners = <<>>
    /\ events = <<>>
    /\ deliveries = <<>>
    /\ files = Opened(fileName)
    /\ exitHooks = DOMAIN kv
    /\ closed = {}
    /\ auto = NoAuto
    /\ call = [op |-> "new", engine |-> "localStorage", args |-> <<>>,
               outcome |-> "returned", error |-> "none", message |-> T_empty,
               result |-> JSUndefined,
               pre |-> {}]

GetItemText ==
    \E e \in DOMAIN kv, k \in KeyInputs :
        Called("getItem", e, <<k>>, getItem(kv[e], <<k>>))

RemoveItemText ==
    \E e \in DOMAIN kv, k \in KeyInputs :
        Called("removeItem", e, <<k>>, removeItem(kv[e], listeners, <<k>>))

SetItemText ==
    \E e \in DOMAIN kv, k \in KeyInputs, x \in TextInputs :
        Called("setItem", e, <<k, x>>, setItem(kv[e], quota[e], listeners, <<k, x>>))

NextStorages ==
    \/ Clear
    \/ Length
    \/ GetItemText
    \/ RemoveItemText
    \/ SetItemText
    \/ AddListener
    \/ RemoveAllListeners

SpecStorages == InitStorages /\ [][NextStorages]_vars

----------------------------------------------------------------------------
(* Construction and the exit of the process: engines are constructed on     *)
(* files that outlive the process                                           *)

\* the file names given to the constructor
NameInputs == {":memory:", "", "db.sqlite"}

\* the options given to the constructor: none, or an object whose emitter is
\* an EventEmitter, some other object, or missing
Options(emitter, q) == [type |-> "object", emitter |-> emitter, quota |-> q]

OptionsInputs ==
    {JSUndefined} \cup {Options(em, JSUndefined) : em \in {"EventEmitter", "object", "undefined"}}

\* CREATE TABLE kv after DROP TABLE IF EXISTS kv
CreateTable_Recreate(file) == FileWith({})

\* CREATE TABLE IF NOT EXISTS kv (key text unique, value text), on the file
\* that new Database(fileName, {create: true}) opened or created
CreateTableIfNotExists(file) == IF file.exists THEN file ELSE FileWith({})

\* the files after new Database(name) and CREATE TABLE IF NOT EXISTS; the
\* names ':memory:' and '' open a database in memory, without a file
OpenDatabase(fs, name) ==
    [n \in DOMAIN fs |-> IF n = name THEN CreateTableIfNotExists(fs[n]) ELSE fs[n]]

\* how the constructor ends: the files, the exit hooks and, when it returned,
\* the rows that the new engine reads
Constructed(outcome, error, message, fs, hooks, rows) ==
    [outcome |-> outcome, error |-> error, message |-> message, files |-> fs,
     exitHooks |-> hooks, rows |-> rows]

\* a constructor that opens the database and registers its hook first and
\* examines the emitter afterwards
constructor_CheckAfterOpen(e, name, options, fs, hooks) ==
    LET opened == OpenDatabase(fs, name)
        rows == IF name \in DOMAIN fs THEN opened[name].rows ELSE {}
    IN IF options = JSUndefined
       THEN Constructed("threw", "TypeError", T_NotAnObject, opened, hooks \cup {e}, {})
       ELSE IF options.emitter # "EventEmitter"
       THEN Constructed("threw", "TypeError", T_EmitterOption, opened, hooks \cup {e}, {})
       ELSE Constructed("returned", "none", T_empty, opened, hooks \cup {e}, rows)

\* constructor(fileName, options) of the engine e
constructor(e, name, options, fs, hooks) ==
    IF options = JSUndefined
    THEN Constructed("threw", "TypeError", T_NotAnObject, fs, hooks, {})
    ELSE IF options.emitter # "EventEmitter"
    THEN Constructed("threw", "TypeError", T_EmitterOption, fs, hooks, {})
    ELSE LET opened == OpenDatabase(fs, name)
         IN Constructed("returned", "none", T_empty, opened, hooks \cup {e},
                        IF name \in DOMAIN fs THEN opened[name].rows ELSE {})

\* an exit hook that deletes the rows whatever the file name
exitHook_DeleteAlways(name, rows) == DeleteAll(rows)

\* the exit hook of an engine, on the rows of its database
exitHook(name, rows) == IF name = ":memory:" THEN DeleteAll(rows) ELSE rows

\* a function with one more argument
Extended(f, e, x) == [s \in DOMAIN f \cup {e} |-> IF s = e THEN x ELSE f[s]]

\* a process that has constructed no engine, in a directory without files
InitOpen ==
    /\ kv = [s \in {} |-> {}]
    /\ quota = [s \in {} |-> JSUndefined]
    /\ fileName = [s \in {} |-> ""]
    /\ listeners = <<>>
    /\ events = <<>>
    /\ deliveries = <<>>
    /\ files = [n \in FileNames |-> NoFile]
    /\ exitHooks = {}
    /\ closed = {}
    /\ auto = NoAuto
    /\ call = [op |-> "start", engine |-> "process", args |-> <<>>,
               outcome |-> "returned", error |-> "none", message |-> T_empty,
               result |-> JSUndefined,
               pre |-> {}]

\* new Storage(name, options)
New ==
    \E e \in EngineNames \ DOMAIN kv, name \in NameInputs, options \in OptionsInputs :
        LET out == constructor(e, name, options, files, exitHooks)
        IN /\ call' = [op |-> "new", engine |-> e,
                       args |-> <<[type |-> "string", name |-> name], options>>,
                       outcome |-> out.outcome, error |-> out.error,
                       message |-> out.message, result |-> JSUndefined, pre |-> {}]
           /\ files' = out.files
           /\ exitHooks' = out.exitHooks
           /\ IF out.outcome = "returned"
              THEN /\ kv' = Extended(kv, e, out.rows)
                   /\ fileName' = Extended(fileName, e, name)
                   /\ quota' = Extended(quota, e, options.quota)
              ELSE UNCHANGED <<kv, fileName, quota>>
           /\ events' = <<>>
           /\ deliveries' = <<>>
           /\ UNCHANGED <<listeners, closed, auto>>

\* the process exits: the hooks run, the connections are closed, and what was
\* in memory is gone
Exit ==
    /\ DOMAIN kv # {}
    /\ files' = [n \in DOMAIN files |->
                    IF \E e \in exitHooks : fileName[e] = n
                    THEN FileWith(exitHook(n, files[n].rows))
                    ELSE files[n]]
    /\ kv' = [s \in {} |-> {}]
    /\ quota' = [s \in {} |-> JSUndefined]
    /\ fileName' = [s \in {} |-> ""]
    /\ listeners' = <<>>
    /\ exitHooks' = {}
    /\ closed' = {}
    /\ auto' = auto
    /\ events' = <<>>
    /\ deliveries' = <<>>
    /\ call' = [op |-> "exit", engine |-> "process", args |-> <<>>,
                outcome |-> "returned", error |-> "none", message |-> T_empty,
                result |-> JSUndefined, pre |-> {}]

NextOpen ==
    \/ New
    \/ Exit
    \/ Length
    \/ GetItemText
    \/ RemoveItemText
    \/ SetItemText

SpecOpen == InitOpen /\ [][NextOpen]_vars

----------------------------------------------------------------------------
(* The exit of the process in its two steps: the 'exit' event, on which the  *)
(* hooks of the engines run and close their connections while the process   *)
(* still runs the listeners registered after them, and the end of the       *)
(* process.  A statement prepared on a closed connection throws.            *)

\* this.#db.prepare(...) on a closed connection: bun:sqlite throws
ClosedError(table) == Throw(table, "SQLiteError")

\* getItem whose statement is not in a try block
getItemClosed_NoCatch(table, args) ==
    IF Len(args) # 1 THEN ThrowArity(table, T_getItem, 1, args)
    ELSE ClosedError(table)

\* getItem(...args) on a closed connection: the statement throws inside the
\* try block, and the catch returns null
getItemClosed(table, args) ==
    IF Len(args) # 1 THEN ThrowArity(table, T_getItem, 1, args)
    ELSE Return(table, JSNull)

\* clear() on a closed connection: the DELETE throws, before #dispatchEvent
clearClosed(table, ls) == ClosedError(table)

\* key(...args) on a closed connection: the SELECT throws
keyClosed(table, args) ==
    IF Len(args) # 1 THEN ThrowArity(table, T_key, 1, args)
    ELSE ClosedError(table)

\* get length() on a closed connection: the SELECT throws
lengthClosed(table) == ClosedError(table)

\* removeItem(...args) on a closed connection: getItem gives null, then the
\* DELETE throws, before #dispatchEvent
removeItemClosed(table, ls, args) ==
    IF Len(args) # 1 THEN ThrowArity(table, T_removeItem, 1, args)
    ELSE LET keyName == args[1]
             oldValue == getItemClosed(table, <<keyName>>).result
         IN ClosedError(table)

\* setItem(...args) on a closed connection: getItem gives null, then the
\* SELECT of #calculateSize throws when a quota is set, the REPLACE when none
\* is, before #dispatchEvent
setItemClosed(table, q, ls, args) ==
    IF Len(args) # 2 THEN ThrowArity(table, T_setItem, 2, args)
    ELSE LET keyName == args[1]
             oldValue == getItemClosed(table, <<keyName>>).result
         IN IF q # JSUndefined THEN ClosedError(table) ELSE ClosedError(table)

\* the arguments of the calls made while the process exits
ExitKeyArgs == {<<>>} \cup {<<k>> : k \in KeyInputs}

ExitSetArgs == {<<JSString(T_a)>>} \cup {<<k, JSString(T_x)>> : k \in KeyInputs}

\* process emits 'exit', once: the hooks of the engines run, each on its own
\* connection, and close it; no event is published.  The call records the
\* rows that the engines on ':memory:' held before.
ExitEvent ==
    /\ exitHooks # {}
    /\ closed = {}
    /\ files' = [n \in DOMAIN files |->
                    IF \E e \in exitHooks : fileName[e] = n
                    THEN FileWith(exitHook(n, files[n].rows))
                    ELSE files[n]]
    /\ kv' = [s \in DOMAIN kv |->
                IF s \in exitHooks THEN exitHook(fileName[s], kv[s]) ELSE kv[s]]
    /\ closed' = closed \cup exitHooks
    /\ exitHooks' = {}
    /\ events' = <<>>
    /\ deliveries' = <<>>
    /\ call' = [op |-> "exit event", engine |-> "process", args |-> <<>>,
                outcome |-> "returned", error |-> "none", message |-> T_empty,
                result |-> JSUndefined,
                pre |-> UNION {kv[e] : e \in {s \in exitHooks : fileName[s] = ":memory:"}}]
    /\ UNCHANGED <<quota, fileName, listeners, auto>>

ClearOn ==
    \E e \in DOMAIN kv :
        Called("clear", e, <<>>,
               IF e \in closed THEN clearClosed(kv[e], listeners)
               ELSE clear(kv[e], listeners))

GetItemOn ==
    \E e \in DOMAIN kv, args \in ExitKeyArgs :
        Called("getItem", e, args,
               IF e \in closed THEN getItemClosed(kv[e], args)
               ELSE getItem(kv[e], args))

KeyOn ==
    \E e \in DOMAIN kv, args \in {<<>>, <<JSNumber(0)>>} :
        Called("key", e, args,
               IF e \in closed THEN keyClosed(kv[e], args)
               ELSE key(kv[e], args))

LengthOn ==
    \E e \in DOMAIN kv :
        Called("length", e, <<>>,
               IF e \in closed THEN lengthClosed(kv[e])
               ELSE length(kv[e]))

RemoveItemOn ==
    \E e \in DOMAIN kv, args \in ExitKeyArgs :
        Called("removeItem", e, args,
               IF e \in closed THEN removeItemClosed(kv[e], listeners, args)
               ELSE removeItem(kv[e], listeners, args))

SetItemOn ==
    \E e \in DOMAIN kv, args \in ExitSetArgs :
        Called("setItem", e, args,
               IF e \in closed THEN setItemClosed(kv[e], quota[e], listeners, args)
               ELSE setItem(kv[e], quota[e], listeners, args))

NextExit ==
    \/ New
    \/ ExitEvent
    \/ Exit
    \/ ClearOn
    \/ GetItemOn
    \/ KeyOn
    \/ LengthOn
    \/ RemoveItemOn
    \/ SetItemOn

SpecExit == InitOpen /\ [][NextExit]_vars

----------------------------------------------------------------------------
(* One engine on a file that outlives the process, constructed again with   *)
(* another quota                                                            *)

\* the quotas given to the constructor
ReopenQuotas == {JSUndefined, JSNumber(2), JSNumber(MaxQuota)}

\* new Storage('db.sqlite', { emitter, quota })
NewQuota ==
    \E e \in {"localStorage"} \ DOMAIN kv, q \in ReopenQuotas :
        LET name == "db.sqlite"
            options == Options("EventEmitter", q)
            out == constructor(e, name, options, files, exitHooks)
        IN /\ call' = [op |-> "new", engine |-> e,
                       args |-> <<[type |-> "string", name |-> name], options>>,
                       outcome |-> out.outcome, error |-> out.error,
                       message |-> out.message, result |-> JSUndefined, pre |-> {}]
           /\ files' = out.files
           /\ exitHooks' = out.exitHooks
           /\ kv' = Extended(kv, e, out.rows)
           /\ fileName' = Extended(fileName, e, name)
           /\ quota' = Extended(quota, e, options.quota)
           /\ events' = <<>>
           /\ deliveries' = <<>>
           /\ UNCHANGED <<listeners, closed, auto>>

NextQuota ==
    \/ NewQuota
    \/ Exit
    \/ Clear
    \/ RemoveItemText
    \/ SetItemText
    \/ AddListener
    \/ RemoveAllListeners

SpecQuota == InitOpen /\ [][NextQuota]_vars

----------------------------------------------------------------------------
(* The automatic setup of src/auto.ts: main() is called and not awaited, so  *)
(* the program runs on while main waits for access and mkdir                *)

\* what a name of the global object holds when the setup starts: nothing, or
\* a value of the host or of the program
GlobalInputs == {"absent", "other"}

\* '.bun-storage/localStorage.sqlite', the file of the durable store
AutoFile == "db.sqlite"

\* initStorages that assigns both names
initStorages_Assign(g) ==
    [created |-> TRUE,
     globalThis |-> [localStorage |-> "bun-storage", sessionStorage |-> "bun-storage"]]

\* initStorages(): whether it called createStorages, and the global object
\* that it leaves
initStorages(g) ==
    LET hasLocalStorage == g.localStorage # "absent"
        hasSessionStorage == g.sessionStorage # "absent"
    IN IF hasLocalStorage /\ hasSessionStorage
       THEN [created |-> FALSE, globalThis |-> g]
       ELSE [created |-> TRUE,
             globalThis |->
                [localStorage |-> IF ~hasLocalStorage THEN "bun-storage"
                                  ELSE g.localStorage,
                 sessionStorage |-> IF ~hasSessionStorage THEN "bun-storage"
                                    ELSE g.sessionStorage]]

\* the process imports auto.ts: main() has called createStorageDirectory,
\* which waits for access(STORAGE_DIR)
InitAuto ==
    /\ kv = [s \in {} |-> {}]
    /\ quota = [s \in {} |-> JSUndefined]
    /\ fileName = [s \in {} |-> ""]
    /\ listeners = <<>>
    /\ events = <<>>
    /\ deliveries = <<>>
    /\ files = [n \in FileNames |-> NoFile]
    /\ exitHooks = {}
    /\ closed = {}
    /\ \E d \in BOOLEAN, l \in GlobalInputs, s \in GlobalInputs :
            auto = [pc |-> "access", directory |-> d,
                    globalThis |-> [localStorage |-> l, sessionStorage |-> s]]
    /\ call = [op |-> "main", engine |-> "process", args |-> <<>>,
               outcome |-> "returned", error |-> "none", message |-> T_empty,
               result |-> JSUndefined,
               pre |-> {}]

\* storageDirectoryExists() settles: createStorageDirectory returns when the
\* directory is there and calls mkdir when it is not
Access ==
    /\ auto.pc = "access"
    /\ auto' = [auto EXCEPT !.pc = IF auto.directory THEN "initStorages" ELSE "mkdir"]
    /\ UNCHANGED <<kv, quota, fileName, listeners, call, events, deliveries, files,
                   exitHooks, closed>>

\* mkdir(STORAGE_DIR) settles: it makes the directory, or fails, as it does
\* when the directory was made in the meantime, and then main() rejects
Mkdir ==
    /\ auto.pc = "mkdir"
    /\ \/ /\ ~auto.directory
          /\ auto' = [auto EXCEPT !.pc = "initStorages", !.directory = TRUE]
       \/ auto' = [auto EXCEPT !.pc = "rejected"]
    /\ UNCHANGED <<kv, quota, fileName, listeners, call, events, deliveries, files,
                   exitHooks, closed>>

\* main() calls initStorages(), which runs to its end: createStorages
\* constructs sessionStorage and then localStorage
Setup ==
    /\ auto.pc = "initStorages"
    /\ LET init == initStorages(auto.globalThis)
           options == Options("EventEmitter", JSUndefined)
           names == createStorage(AutoFile)
           session == constructor("sessionStorage", names.sessionStorage, options,
                                  files, exitHooks)
           local == constructor("localStorage", names.localStorage, options,
                                session.files, session.exitHooks)
       IN /\ auto' = [auto EXCEPT !.pc = "done", !.globalThis = init.globalThis]
          /\ IF init.created
             THEN /\ kv' = [sessionStorage |-> session.rows, localStorage |-> local.rows]
                  /\ fileName' = names
                  /\ quota' = [s \in EngineNames |-> options.quota]
                  /\ files' = local.files
                  /\ exitHooks' = local.exitHooks
             ELSE UNCHANGED <<kv, fileName, quota, files, exitHooks>>
    /\ call' = [op |-> "initStorages", engine |-> "process", args |-> <<>>,
                outcome |-> "returned", error |-> "none", message |-> T_empty,
                result |-> JSUndefined, pre |-> {}]
    /\ events' = <<>>
    /\ deliveries' = <<>>
    /\ UNCHANGED <<listeners, closed>>

\* the program assigns a name of the global object that is not there
AssignGlobal ==
    /\ \E n \in EngineNames :
        /\ auto.globalThis[n] = "absent"
        /\ auto' = [auto EXCEPT !.globalThis[n] = "other"]
    /\ UNCHANGED <<kv, quota, fileName, listeners, call, events, deliveries, files,
                   exitHooks, closed>>

\* the directory is made by someone else
MakeDirectory ==
    /\ ~auto.directory
    /\ auto' = [auto EXCEPT !.directory = TRUE]
    /\ UNCHANGED <<kv, quota, fileName, listeners, call, events, deliveries, files,
                   exitHooks, closed>>

\* the engines that the global object holds
Installed == {e \in DOMAIN kv : auto.globalThis[e] = "bun-storage"}

GetItemGlobal ==
    \E e \in Installed, k \in KeyInputs :
        Called("getItem", e, <<k>>, getItem(kv[e], <<k>>))

RemoveItemGlobal ==
    \E e \in Installed, k \in KeyInputs :
        Called("removeItem", e, <<k>>, removeItem(kv[e], listeners, <<k>>))

SetItemGlobal ==
    \E e \in Installed, k \in KeyInputs, x \in TextInputs :
        Called("setItem", e, <<k, x>>, setItem(kv[e], quota[e], listeners, <<k, x>>))

NextAuto ==
    \/ Access
    \/ Mkdir
    \/ Setup
    \/ AssignGlobal
    \/ MakeDirectory
    \/ GetItemGlobal
    \/ RemoveItemGlobal
    \/ SetItemGlobal

SpecAuto == InitAuto /\ [][NextAuto]_vars

----------------------------------------------------------------------------
(* One engine whose listeners may call the store from their handler *)

\* what the listeners do with an event
HandlerKinds == {"ok", "throw", "revert"}

InitReentrant ==
    /\ kv = [s \in {"localStorage"} |-> {}]
    /\ quota = [s \in DOMAIN kv |-> JSUndefined]
    /\ fileName = [s \in DOMAIN kv |-> FileOf(s)]
    /\ listeners = <<>>
    /\ events = <<>>
    /\ deliveries = <<>>
    /\ files = Opened(fileName)
    /\ exitHooks = DOMAIN kv
    /\ closed = {}
    /\ auto = NoAuto
    /\ call = [op |-> "new", engine |-> "localStorage", args |-> <<>>,
               outcome |-> "returned", error |-> "none", message |-> T_empty,
               result |-> JSUndefined,
               pre |-> {}]

\* emitter.on('storage', handler)
AddHandler ==
    /\ Len(listeners) < MaxHandlers
    /\ \E kind \in HandlerKinds : listeners' = Append(listeners, kind)
    /\ UNCHANGED <<kv, quota, fileName, call, events, deliveries, files, exitHooks,
                   closed, auto>>

NextReentrant ==
    \/ Clear
    \/ GetItemText
    \/ RemoveItemText
    \/ SetItemText
    \/ AddHandler
    \/ RemoveAllListeners

SpecReentrant == InitReentrant /\ [][NextReentrant]_vars

----------------------------------------------------------------------------
(* What the claims speak of *)

\* the store of the engine of the last call, now and before that call
Store == kv[call.engine]

Before == call.pre

KeysOf(table) == {r.key : r \in table}

\* the value of key k in a table: its text, or null
ValueOf(table, k) ==
    IF k \in KeysOf(table)
    THEN JSString((CHOOSE r \in table : r.key = k).value)
    ELSE JSNull

\* the key-to-value mapping of a table
MappingOf(table) == [k \in KeysOf(table) |-> ValueOf(table, k).v]

\* a table with the entry of k replaced by (k, v)
WithEntry(table, k, v) == {r \in table : r.key # k} \cup {[key |-> k, value |-> v]}

\* a table without the entry of k
WithoutEntry(table, k) == {r \in table : r.key # k}

\* sum over the entries of 2 * (length(key) + length(value))
RECURSIVE Usage(_)
Usage(table) ==
    IF table = {} THEN 0
    ELSE LET r == CHOOSE r \in table : TRUE
         IN 2 * (Len(r.key) + Len(r.value)) + Usage(table \ {r})

SetItemCalled == call.op = "setItem" /\ Len(call.args) = 2

SetItemReturned == SetItemCalled /\ call.outcome = "returned"

\* the one event of the last call
TheEvent == events[1].payload

----------------------------------------------------------------------------
\* C1: round trip: after setItem(k, v) with text k and v has returned normally,
\* getItem(k) on the store as it is then returns exactly v.
C1_RoundTrip ==
    (SetItemReturned /\ call.args[2].type = "string")
        => getItem(Store, <<call.args[1]>>).result = call.args[2]

C1_Witness ==
    /\ SetItemReturned
    /\ call.args[2] = JSString(T_x)
    /\ ValueOf(Before, call.args[1].v) = JSString(T_true)
    /\ getItem(Store, <<call.args[1]>>).result = JSString(T_x)

\* C2: quota invariant: a store with quota Q that starts empty has a weighted
\* usage of at most Q in every reachable state.
C2_QuotaInvariant ==
    \A e \in DOMAIN kv : quota[e] # JSUndefined => Usage(kv[e]) <= quota[e].n

C2_Witness ==
    /\ SetItemReturned
    /\ quota[call.engine] # JSUndefined
    /\ Cardinality(Store) = 2
    /\ Usage(Store) = quota[call.engine].n

\* C3: a setItem that fails with QuotaExceededError leaves every entry and the
\* length of the store as before the call, and publishes no event.
C3_QuotaFailureLeavesStore ==
    (call.op = "setItem" /\ call.error = "QuotaExceededError")
        => /\ \A k \in Keys : ValueOf(Store, k) = ValueOf(Before, k)
           /\ Store = Before
           /\ CountRows(Store) = CountRows(Before)
           /\ events = <<>>

C3_Witness ==
    /\ call.op = "setItem"
    /\ call.error = "QuotaExceededError"
    /\ call.outcome = "threw"
    /\ Before # {}
    /\ listeners # <<>>

\* C4: the quota decision is exact: with quota Q, setItem(k, v) fails with
\* QuotaExceededError if and only if the usage of the store with the entry of k
\* replaced by (k, v) is above Q, whatever the prior value of k, the empty
\* text included.
C4_QuotaDecisionExact ==
    (SetItemCalled /\ quota[call.engine] # JSUndefined)
        => ((call.error = "QuotaExceededError")
            <=> Usage(WithEntry(Before, ToText(call.args[1]), ToText(call.args[2])))
                    > quota[call.engine].n)

\* C5 as claimed: a setItem that fails, for whatever reason, leaves the store
\* as before the call.
C5_FailedSetItemLeavesStore ==
    (call.op = "setItem" /\ call.outcome = "threw") => Store = Before

\* C5 as amended: setItem returns normally with its write committed, or fails
\* its arity or quota check with the store as before the call, or fails after
\* the write, while the event is dispatched (the exception of a listener), and
\* then the write is committed.
C5_SetItemOutcomes ==
    call.op = "setItem"
        => \/ /\ call.outcome = "threw"
              /\ call.error \in {"TypeError", "QuotaExceededError"}
              /\ Store = Before
           \/ /\ call.outcome = "returned" \/ call.error = "ListenerError"
              /\ (call.outcome = "returned") = (call.error = "none")
              /\ Len(call.args) = 2
              /\ Store = WithEntry(Before, ToText(call.args[1]), ToText(call.args[2]))

C5_Witness ==
    /\ call.op = "setItem"
    /\ call.outcome = "threw"
    /\ call.error = "ListenerError"
    /\ Store # Before
    /\ Before # {}

\* C6: event snapshot: the storageArea of every event published by clear,
\* removeItem or setItem is exactly the key-to-value mapping of the store right
\* after the mutation of that call: the same keys, each with its value.
C6_EventSnapshot ==
    \A i \in 1..Len(events) :
        /\ call.op \in {"clear", "removeItem", "setItem"}
        /\ DOMAIN events[i].payload.storageArea = KeysOf(Store)
        /\ \A r \in Store : events[i].payload.storageArea[r.key] = r.value
        /\ events[i].payload.storageArea = MappingOf(Store)

C6_Witness ==
    /\ call.op = "removeItem"
    /\ Len(events) = 1
    /\ Cardinality(Before) = 2
    /\ Cardinality(Store) = 1
    /\ TheEvent.storageArea = MappingOf(Store)

\* C7: set event: a setItem(k, v) that returns normally has published one event
\* with key k and with oldValue the value of k before the call, or null when k
\* was absent; on an empty store setItem('demo', v), v a text, publishes
\* {key:'demo', newValue:v, oldValue:null, storageArea:{demo:v}, url:undefined}.
C7_SetEvent ==
    SetItemReturned
        => /\ Len(events) = 1
           /\ TheEvent.key = call.args[1]
           /\ TheEvent.oldValue = ValueOf(Before, call.args[1].v)
           /\ (Before = {} /\ call.args[1] = JSString(T_demo)
                 /\ call.args[2].type = "string")
                => TheEvent = [key |-> JSString(T_demo),
                               newValue |-> call.args[2],
                               oldValue |-> JSNull,
                               storageArea |-> [k \in {T_demo} |-> call.args[2].v],
                               url |-> JSUndefined]

C7_Witness ==
    /\ SetItemReturned
    /\ call.args[1] = JSString(T_demo)
    /\ ValueOf(Before, T_demo) = JSString(T_x)
    /\ TheEvent.oldValue = JSString(T_x)
    /\ TheEvent.newValue = JSString(T_empty)

\* C8: for a setItem(k, x) that returns normally, x of any variant, the newValue
\* of the published event is the coerced text of x: the value getItem(k) returns
\* right after the call and the value of storageArea[k] in the same event.
C8_NewValueCoerced ==
    SetItemReturned
        => /\ Len(events) = 1
           /\ TheEvent.newValue = JSString(ToText(call.args[2]))
           /\ TheEvent.newValue = getItem(Store, <<call.args[1]>>).result
           /\ TheEvent.newValue.v = TheEvent.storageArea[call.args[1].v]

\* C9: remove event: removeItem(k) with one argument publishes exactly one
\* event {key: k, newValue: null, oldValue: the prior value of k or null,
\* storageArea: the store after the deletion}, also when k was not in the
\* store, then with oldValue null and the storageArea of the unchanged store.
C9_RemoveEvent ==
    (call.op = "removeItem" /\ Len(call.args) = 1)
        => /\ Len(events) = 1
           /\ TheEvent = [key |-> call.args[1],
                          newValue |-> JSNull,
                          oldValue |-> ValueOf(Before, call.args[1].v),
                          storageArea |-> MappingOf(WithoutEntry(Before, call.args[1].v)),
                          url |-> JSUndefined]
           /\ call.args[1].v \notin KeysOf(Before)
                => /\ TheEvent.oldValue = JSNull
                   /\ TheEvent.storageArea = MappingOf(Before)
                   /\ Store = Before

C9_Witness ==
    /\ call.op = "removeItem"
    /\ Len(call.args) = 1
    /\ call.args[1].v \notin KeysOf(Before)
    /\ Before # {}
    /\ Len(events) = 1
    /\ TheEvent.oldValue = JSNull

\* C10: clear event: every call of clear(), on an empty store or not, publishes
\* exactly one event, {key:null, newValue:null, oldValue:null, storageArea:{},
\* url:undefined}.
C10_ClearEvent ==
    call.op = "clear"
        => /\ Len(events) = 1
           /\ TheEvent = [key |-> JSNull,
                          newValue |-> JSNull,
                          oldValue |-> JSNull,
                          storageArea |-> MappingOf({}),
                          url |-> JSUndefined]

C10_Witness ==
    /\ call.op = "clear"
    /\ Cardinality(Before) = 2
    /\ Len(events) = 1
    /\ DOMAIN TheEvent.storageArea = {}

----------------------------------------------------------------------------
\* a before b in ascending lexicographic order
RECURSIVE LexBefore(_, _)
LexBefore(a, b) ==
    IF b = <<>> THEN FALSE
    ELSE IF a = <<>> THEN TRUE
    ELSE a[1] < b[1] \/ (a[1] = b[1] /\ LexBefore(Tail(a), Tail(b)))

\* what key(i) returns on a table, for an integer i
KeyAt(table, i) == key(table, <<JSNumber(i)>>).result

\* C11: index ordering: in every reachable state with n entries, key(i) for
\* 0 <= i < n is the i-th smallest key in ascending lexicographic order, so
\* key(0..n-1) is strictly increasing and enumerates exactly the keys of the
\* store, whatever the order of the calls that built it.
C11_IndexOrdering ==
    LET n == Cardinality(KeysOf(Store))
    IN /\ \A i \in 0..(n - 1) :
            /\ KeyAt(Store, i).type = "string"
            /\ KeyAt(Store, i).v \in KeysOf(Store)
            /\ Cardinality({k \in KeysOf(Store) : LexBefore(k, KeyAt(Store, i).v)}) = i
       /\ \A i \in 0..(n - 2) : LexBefore(KeyAt(Store, i).v, KeyAt(Store, i + 1).v)
       /\ {KeyAt(Store, i).v : i \in 0..(n - 1)} = KeysOf(Store)
       /\ (call.op = "key" /\ call.args \in {<<JSNumber(i)>> : i \in 0..(n - 1)})
            => /\ call.outcome = "returned"
               /\ call.result = KeyAt(Store, call.args[1].n)

C11_Witness ==
    /\ call.op = "setItem"
    /\ call.outcome = "returned"
    /\ call.args[1] = JSString(T_a)
    /\ KeysOf(Before) = {T_ab, T_b}
    /\ KeyAt(Store, 0) = JSString(T_a)
    /\ KeyAt(Store, 1) = JSString(T_ab)
    /\ KeyAt(Store, 2) = JSString(T_b)

\* the integer position that key() makes of its index
PositionOf(index) == OrZero(ParseInt(ToText(index)))

\* C12: key(index) returns null whenever the coerced integer position is out
\* of range for the store: for every position >= length and for every negative
\* position.
C12_OutOfRangeIsNull ==
    (call.op = "key" /\ Len(call.args) = 1)
        => ((PositionOf(call.args[1]) >= Cardinality(Store)
                \/ PositionOf(call.args[1]) < 0)
            => call.result = JSNull)

\* 10^k
RECURSIVE Pow10(_)
Pow10(k) == IF k <= 0 THEN 1 ELSE 10 * Pow10(k - 1)

\* trunc(x) of a non-negative number
Trunc(x) == IF "e" \in DOMAIN x THEN x.n \div Pow10(0 - x.e) ELSE x.n

Unparsable(index) == ParseInt(ToText(index)) = JSNaN

\* C13: index coercion: key(x) equals key(trunc(x)) for every non-negative
\* fractional x, and an index that does not parse as a base-10 integer is
\* taken as position 0.
C13_IndexCoercion ==
    (call.op = "key" /\ Len(call.args) = 1)
        => /\ (call.args[1].type = "number" /\ "e" \in DOMAIN call.args[1])
                => call.result = KeyAt(Store, Trunc(call.args[1]))
           /\ Unparsable(call.args[1])
                => call.result = KeyAt(Store, 0)

----------------------------------------------------------------------------
\* the default stringification that the claims name, variant by variant
DefaultText(x) ==
    CASE x.type = "boolean" -> IF x.b THEN <<116, 114, 117, 101>>
                               ELSE <<102, 97, 108, 115, 101>>
      [] x.type = "null" -> <<110, 117, 108, 108>>
      [] x.type = "undefined" -> <<117, 110, 100, 101, 102, 105, 110, 101, 100>>
      [] x.type = "object" ->
            <<91, 111, 98, 106, 101, 99, 116, 32, 79, 98, 106, 101, 99, 116, 93>>
      [] x.type \in {"number", "bigint"} -> IF x.n = 1 THEN <<49>> ELSE DecimalText(x.n)

\* C14: value coercion: after a setItem(k, x) that returned, x a number, a
\* boolean, null, undefined, an object or a bigint, getItem(k) returns the
\* default stringification of x, a text, and neither x itself nor null.
C14_ValueCoercion ==
    (SetItemReturned /\ call.args[2].type # "string")
        => /\ getItem(Store, <<call.args[1]>>).result = JSString(DefaultText(call.args[2]))
           /\ getItem(Store, <<call.args[1]>>).result # call.args[2]
           /\ getItem(Store, <<call.args[1]>>).result # JSNull

C14_Witness ==
    /\ SetItemReturned
    /\ call.args[2] = JSNull
    /\ ValueOf(Before, call.args[1].v) = JSString(T_object)
    /\ getItem(Store, <<call.args[1]>>).result = JSString(T_null)

\* C15: key uniqueness: in every reachable state each key occurs in at most one
\* row; a setItem on a key that is in the store leaves length as it was, and
\* when it returns getItem gives the value it wrote.
C15_KeyUniqueness ==
    /\ \A e \in DOMAIN kv : \A r, q \in kv[e] : r.key = q.key => r = q
    /\ (SetItemCalled /\ call.args[1].v \in KeysOf(Before))
        => /\ length(Store).result = length(Before).result
           /\ call.outcome = "returned"
                => getItem(Store, <<call.args[1]>>).result
                        = JSString(ToText(call.args[2]))

C15_Witness ==
    /\ SetItemReturned
    /\ Cardinality(Before) = 2
    /\ ValueOf(Before, call.args[1].v) = JSString(T_x)
    /\ ValueOf(Store, call.args[1].v) = JSString(T_true)
    /\ length(Store).result = JSNumber(2)

\* the change of length that the claim gives the last call
LengthDeltaClaimed ==
    IF SetItemReturned /\ call.args[1].v \notin KeysOf(Before) THEN 1
    ELSE IF call.op = "removeItem" /\ Len(call.args) = 1
            /\ call.args[1].v \in KeysOf(Before) THEN -1
    ELSE 0

\* a setItem whose write was made: it passed the arity and the quota check
SetItemWrote ==
    SetItemCalled /\ (call.outcome = "returned" \/ call.error = "ListenerError")

LengthDelta ==
    IF SetItemWrote /\ call.args[1].v \notin KeysOf(Before) THEN 1
    ELSE IF call.op = "removeItem" /\ Len(call.args) = 1
            /\ call.args[1].v \in KeysOf(Before) THEN -1
    ELSE 0

\* C16 as claimed: length is the number of distinct keys, 0 on an empty store,
\* one more after a setItem of a new key that returned normally, one less after
\* a removeItem of a present key, and unchanged by every other call.
C16_LengthSuccessfulOnly ==
    /\ length(Store).result = JSNumber(Cardinality(KeysOf(Store)))
    /\ call.op = "clear" => length(Store).result = JSNumber(0)
    /\ call.op \in {"setItem", "removeItem", "getItem"}
        => length(Store).result.n = length(Before).result.n + LengthDeltaClaimed

\* C16 as amended: the setItem that adds one is every setItem of a new key
\* that passed its arity and quota checks, also one that then raised the
\* exception of a listener.
C16_Length ==
    /\ length(Store).result = JSNumber(Cardinality(KeysOf(Store)))
    /\ Store = {} => length(Store).result = JSNumber(0)
    /\ call.op = "clear" => length(Store).result = JSNumber(0)
    /\ call.op \in {"setItem", "removeItem", "getItem"}
        => length(Store).result.n = length(Before).result.n + LengthDelta

C16_Witness ==
    /\ SetItemWrote
    /\ call.error = "ListenerError"
    /\ Cardinality(Before) = 1
    /\ call.args[1].v \notin KeysOf(Before)
    /\ length(Store).result = JSNumber(2)

----------------------------------------------------------------------------
(* The reference map: a function from keys to values, changed by the calls *)

MapWith(m, k, v) == [j \in DOMAIN m \cup {k} |-> IF j = k THEN v ELSE m[j]]

MapWithout(m, k) == [j \in DOMAIN m \ {k} |-> m[j]]

\* the reference map after the last call, when the setItem calls that write are
\* those that returned normally
RefAfterSuccessful(m) ==
    IF SetItemReturned THEN MapWith(m, call.args[1].v, ToText(call.args[2]))
    ELSE IF call.op = "removeItem" /\ Len(call.args) = 1 THEN MapWithout(m, call.args[1].v)
    ELSE IF call.op = "clear" THEN MappingOf({})
    ELSE m

\* the reference map after the last call, when the setItem calls that write are
\* those that passed the arity and the quota check
RefAfter(m) ==
    IF SetItemWrote THEN MapWith(m, call.args[1].v, ToText(call.args[2]))
    ELSE IF call.op = "removeItem" /\ Len(call.args) = 1 THEN MapWithout(m, call.args[1].v)
    ELSE IF call.op = "clear" THEN MappingOf({})
    ELSE m

\* what getItem gives for every key is what the map m holds, null for a key
\* that m does not hold, and the getItem call just made returned that
ReadsAs(m) ==
    /\ \A k \in KeyInputs :
        /\ getItem(Store, <<k>>).outcome = "returned"
        /\ getItem(Store, <<k>>).result
                = (IF k.v \in DOMAIN m THEN JSString(m[k.v]) ELSE JSNull)
        /\ (getItem(Store, <<k>>).result = JSNull) = (k.v \notin KeysOf(Store))
    /\ (call.op = "getItem" /\ Len(call.args) = 1)
        => /\ call.outcome = "returned"
           /\ call.result
                = (IF call.args[1].v \in DOMAIN m THEN JSString(m[call.args[1].v])
                   ELSE JSNull)

\* C17 as claimed: against the reference map that starts empty and is changed
\* by each setItem that returned normally, by each removeItem(k) and by each
\* clear(), getItem(k) returns the value of k in the map, and null, without an
\* error, exactly when k is absent.
C17_ReadsSuccessfulWrites ==
    /\ call.op = "new" => ReadsAs(MappingOf({}))
    /\ call.op # "new" => ReadsAs(RefAfterSuccessful(MappingOf(Before)))

\* C17 as amended: the setItem calls that change the reference map are those
\* that passed their arity and quota checks, also one that then raised the
\* exception of a listener.
C17_ReadsWrites ==
    /\ call.op = "new" => ReadsAs(MappingOf({}))
    /\ call.op # "new" => ReadsAs(RefAfter(MappingOf(Before)))

C17_Witness ==
    /\ call.op = "getItem"
    /\ call.outcome = "returned"
    /\ call.args = <<JSString(T_demo)>>
    /\ call.result = JSString(T_empty)
    /\ T_a \notin KeysOf(Store)

\* removeItem(k) with one argument on a key that is not in the store
RemoveAbsentCalled ==
    /\ call.op = "removeItem"
    /\ Len(call.args) = 1
    /\ call.args[1].v \notin KeysOf(Before)

\* the store after the removeItem(k) just made is made once more
RemovedAgain == removeItem(Store, listeners, call.args).table

\* C18 as claimed: idempotent delete: removeItem(k) on a key that is not in
\* the store raises no error and leaves length and every entry unchanged, and
\* a second removeItem(k) leaves the store that the first one left.
C18_RemoveAbsentNoError ==
    /\ RemoveAbsentCalled
        => /\ call.outcome = "returned"
           /\ Store = Before
           /\ length(Store).result = length(Before).result
    /\ (call.op = "removeItem" /\ Len(call.args) = 1) => RemovedAgain = Store

\* C18 as amended: removeItem(k) on a key that is not in the store raises no
\* error of its own, the only error being the exception of a listener that
\* throws on the event it publishes, and in both cases leaves length and every
\* entry unchanged; a second removeItem(k) leaves the store of the first one.
C18_IdempotentDelete ==
    /\ RemoveAbsentCalled
        => /\ call.error \in {"none", "ListenerError"}
           /\ call.error = "ListenerError" => events[1].invoked >= 1
           /\ Store = Before
           /\ length(Store).result = length(Before).result
    /\ (call.op = "removeItem" /\ Len(call.args) = 1) => RemovedAgain = Store

C18_Witness ==
    /\ RemoveAbsentCalled
    /\ call.outcome = "returned"
    /\ Cardinality(Store) = 1
    /\ Len(listeners) = 1

\* a store that reads as empty: length 0, null for every getItem(k), null for
\* every key(i)
ReadsEmpty(table) ==
    /\ length(table).result = JSNumber(0)
    /\ \A k \in KeyInputs : getItem(table, <<k>>).result = JSNull
    /\ \A i \in IndexInputs : key(table, <<i>>).result = JSNull

\* C19 as claimed: clear() empties the store from any reachable state:
\* afterwards length is 0, getItem(k) is null for every k and key(i) is null
\* for every i; clear() on an empty store raises no error and leaves it empty.
C19_ClearNoError ==
    call.op = "clear"
        => /\ Store = {}
           /\ ReadsEmpty(Store)
           /\ Before = {} => call.outcome = "returned"

\* C19 as amended: clear() empties the store from any reachable state, also
\* when it ends with the exception of a listener; on an empty store it raises
\* no error of its own, the only error being that of a listener that throws on
\* the event clear() publishes, and leaves the store empty.
C19_ClearEmpties ==
    call.op = "clear"
        => /\ Store = {}
           /\ ReadsEmpty(Store)
           /\ call.error \in {"none", "ListenerError"}
           /\ call.error = "ListenerError" => events[1].invoked >= 1

C19_Witness ==
    /\ call.op = "clear"
    /\ Cardinality(Before) = 2
    /\ Store = {}
    /\ call.outcome = "returned"

\* the other store of the pair: every engine but the one of the call
Others(c) == DOMAIN kv \ {c.engine}

\* C20: independence: of the two stores returned by one createStorage call, a
\* setItem, removeItem or clear on one changes neither length nor any entry of
\* the other, also when both were created with the in-memory marker.
C20_Independence ==
    [][\A e \in Others(call') :
            /\ kv'[e] = kv[e]
            /\ length(kv'[e]).result = length(kv[e]).result]_vars

C20_Witness ==
    /\ DOMAIN kv = {"sessionStorage", "localStorage"}
    /\ fileName["localStorage"] = ":memory:"
    /\ call.engine = "sessionStorage"
    /\ call.op = "clear"
    /\ Before # {}
    /\ kv["sessionStorage"] = {}
    /\ kv["localStorage"] # {}

----------------------------------------------------------------------------
\* the quota of the engine of the last call
TheQuota == quota[call.engine]

\* setItem(k, v) of a k that is in the store, v shorter than the value of k
ShrinkCalled ==
    /\ SetItemCalled
    /\ call.args[1].v \in KeysOf(Before)
    /\ Len(ToText(call.args[2])) < Len(ValueOf(Before, call.args[1].v).v)

\* setItem(k, v) of a k that is not in the store
AddCalled == SetItemCalled /\ call.args[1].v \notin KeysOf(Before)

\* the weighted bytes of the entry that the setItem call gives
AddedSize == 2 * (Len(call.args[1].v) + Len(ToText(call.args[2])))

\* the shrinking setItem wrote and freed the difference of the two values
ShrinkFreed ==
    /\ ValueOf(Store, call.args[1].v) = JSString(ToText(call.args[2]))
    /\ Usage(Store) = Usage(Before)
            - 2 * (Len(ValueOf(Before, call.args[1].v).v) - Len(ToText(call.args[2])))

C22_NoQuotaNoRejection ==
    (SetItemCalled /\ TheQuota = JSUndefined)
        => /\ call.error # "QuotaExceededError"
           /\ Store = WithEntry(Before, call.args[1].v, ToText(call.args[2]))

C22_Witness ==
    /\ SetItemCalled
    /\ TheQuota = JSUndefined
    /\ call.outcome = "returned"
    /\ Usage(Before) > MaxQuota
    /\ Usage(Store) > Usage(Before)

----------------------------------------------------------------------------
\* the text t holds the text part somewhere
Contains(t, part) ==
    \E i \in 0..(Len(t) - Len(part)) : SubSeq(t, i + 1, i + Len(part)) = part

\* 'exceeded the quota'
ExceededTheQuotaText ==
    <<101, 120, 99, 101, 101, 100, 101, 100, 32,
     116, 104, 101, 32, 113, 117, 111, 116, 97>>

\* the name k between single quotes
Quoted(k) == <<39>> \o k \o <<39>>

\* C26: the error raised by a setItem that exceeds the quota has the name
\* 'QuotaExceededError' and a message that contains 'exceeded the quota' and
\* the offending key name.
C26_QuotaError ==
    (SetItemCalled /\ TheQuota # JSUndefined
        /\ QuotaExceeded(Before, TheQuota, call.args[1], call.args[2],
                         getItem(Before, <<call.args[1]>>).result))
        => /\ call.outcome = "threw"
           /\ call.error = "QuotaExceededError"
           /\ Contains(call.message, ExceededTheQuotaText)
           /\ Contains(call.message, Quoted(call.args[1].v))

C26_Witness ==
    /\ SetItemCalled
    /\ call.error = "QuotaExceededError"
    /\ call.args[1] = JSString(T_demo)
    /\ Contains(call.message, Quoted(T_demo))
    /\ ~Contains(call.message, Quoted(T_a))
    /\ Before # {}

----------------------------------------------------------------------------
\* the name of the operation of the last call, as a text
OperationText ==
    CASE call.op = "getItem" -> T_getItem
      [] call.op = "key" -> T_key
      [] call.op = "removeItem" -> T_removeItem
      [] call.op = "setItem" -> T_setItem
      [] OTHER -> T_empty

\* the number of arguments that the operation of the last call requires
RequiredCount == IF call.op = "setItem" THEN 2 ELSE 1

\* the last call had the wrong number of arguments
ArityFailed ==
    /\ call.op \in {"getItem", "key", "removeItem", "setItem"}
    /\ Len(call.args) # RequiredCount

\* ' arguments required'
ArgumentsRequiredText ==
    <<32, 97, 114, 103, 117, 109, 101, 110, 116, 115, 32, 114, 101, 113, 117,
      105, 114, 101, 100>>

\* ' present'
PresentText == <<32, 112, 114, 101, 115, 101, 110, 116>>

\* C23: arity validation: getItem, key and removeItem called with a number of
\* arguments other than 1, and setItem with a number other than 2, fail with
\* an argument error (a TypeError) whose message names the operation and the
\* expected and the actual count; the store is unchanged and no event is
\* published.
C23_ArityValidation ==
    ArityFailed
        => /\ call.outcome = "threw"
           /\ call.error = "TypeError"
           /\ Contains(call.message, <<34>> \o OperationText \o <<34>>)
           /\ Contains(call.message, DecimalText(RequiredCount) \o ArgumentsRequiredText)
           /\ Contains(call.message, <<32>> \o DecimalText(Len(call.args)) \o PresentText)
           /\ Store = Before
           /\ events = <<>>

C23_Witness ==
    /\ ArityFailed
    /\ call.op = "key"
    /\ Len(call.args) = 2
    /\ call.error = "TypeError"
    /\ Cardinality(Store) = 2

----------------------------------------------------------------------------
\* the last call is a clear, removeItem or setItem that ran its statement: it
\* passed its arity check and, for setItem, its quota check
WriteCompleted ==
    \/ call.op = "clear"
    \/ call.op = "removeItem" /\ Len(call.args) = 1
    \/ SetItemCalled /\ call.error # "QuotaExceededError"

\* C28: the change events published are as many as the clear, removeItem and
\* setItem calls that completed their write: each such call publishes exactly
\* one event, whose snapshot is the store after the write, before it ends;
\* a call that fails its arity check or its quota check, and getItem, key and
\* length, publish none.
C28_OneEventPerWrite ==
    /\ WriteCompleted
        => /\ Len(events) = 1
           /\ TheEvent.storageArea = MappingOf(Store)
    /\ ~WriteCompleted => events = <<>>

C28_Witness ==
    /\ SetItemCalled
    /\ call.error = "ListenerError"
    /\ Len(events) = 1
    /\ Store # Before
    /\ TheQuota # JSUndefined

----------------------------------------------------------------------------
\* the last call is a clear, removeItem or setItem that returned normally
MutatingReturned ==
    /\ call.op \in {"clear", "removeItem", "setItem"}
    /\ call.outcome = "returned"

\* every listener on the channel was called with the event of the last call
AllInvoked ==
    \A i \in 1..Len(listeners) :
        \E j \in 1..Len(deliveries) :
            deliveries[j] = [listener |-> i, payload |-> TheEvent]

\* every delivery of the last call is that of an event published within it,
\* and a call that publishes none delivers none
DeliveredWithin ==
    /\ \A j \in 1..Len(deliveries) :
        \E n \in 1..Len(events) : events[n].payload = deliveries[j].payload
    /\ events = <<>> => deliveries = <<>>

\* C29: dispatch is synchronous: when a clear, removeItem or setItem returns
\* normally, every listener that was on the channel during the call has been
\* called with the event of that call; a call delivers only events published
\* within it, so none is delivered after the call that published it returned.
C29_SynchronousDispatch ==
    [][/\ (listeners' = listeners /\ MutatingReturned') => AllInvoked'
       /\ DeliveredWithin']_vars

C29_Witness ==
    /\ MutatingReturned
    /\ call.op = "setItem"
    /\ listeners = <<"ok", "revert">>
    /\ AllInvoked
    /\ Len(deliveries) = 4

\* the place of the first event with the given payload among the events of the
\* last call, which are in the order in which the mutations were applied
PublishedAt(payload) ==
    CHOOSE n \in 1..Len(events) :
        /\ events[n].payload = payload
        /\ \A m \in 1..(n - 1) : events[m].payload # payload

\* C30: reentrant dispatch preserves order: also when a listener mutates the
\* store from inside its handler, every listener receives the change events in
\* the order in which the mutations were applied: no listener is called with
\* the event of a later mutation before the event of an earlier one.
C30_ReentrantOrder ==
    \A p, q \in 1..Len(deliveries) :
        (p < q /\ deliveries[p].listener = deliveries[q].listener)
            => PublishedAt(deliveries[p].payload) <= PublishedAt(deliveries[q].payload)

----------------------------------------------------------------------------
\* the options have no emitter that is an EventEmitter
InvalidEmitter(options) ==
    options = JSUndefined \/ options.emitter # "EventEmitter"

\* C24: constructing a Storage with an emitter option that is missing or is
\* not an EventEmitter fails with an error before the database is opened: no
\* store is created, no table is created and no exit hook is registered.
C24_EmitterChecked ==
    [][(call'.op = "new" /\ InvalidEmitter(call'.args[2]))
        => /\ call'.outcome = "threw"
           /\ call'.error = "TypeError"
           /\ kv' = kv
           /\ files' = files
           /\ exitHooks' = exitHooks]_vars

C24_Witness ==
    /\ call.op = "new"
    /\ call.outcome = "threw"
    /\ call.args[1].name = "db.sqlite"
    /\ call.args[2] = Options("object", JSUndefined)
    /\ call.message = T_EmitterOption
    /\ ~files["db.sqlite"].exists
    /\ exitHooks = {}

\* 'The provided database file name is empty.'
FileNameIsEmptyText ==
    <<84, 104, 101, 32, 112, 114, 111, 118, 105, 100, 101, 100, 32, 100,
      97, 116, 97, 98, 97, 115, 101, 32, 102, 105, 108, 101, 32, 110, 97,
      109, 101, 32, 105, 115, 32, 101, 109, 112, 116, 121, 46>>

\* C25: constructing a Storage with an empty database file name fails with the
\* error 'The provided database file name is empty.', whatever the emitter
\* option is, the check being made before the emitter option is examined.
C25_EmptyFileNameFails ==
    (call.op = "new" /\ call.args[1].name = "")
        => /\ call.outcome = "threw"
           /\ call.message = FileNameIsEmptyText

\* C27: opening is idempotent and durable data persists: constructing an
\* engine on a file creates the table only if it is absent and erases nothing:
\* the file keeps its rows, and the new engine returns every entry of the file
\* by getItem and counts it in its length.
C27_OpenKeepsEntries ==
    [][(call'.op = "new" /\ call'.outcome = "returned"
            /\ call'.args[1].name \in FileNames)
        => LET name == call'.args[1].name
               second == kv'[call'.engine]
           IN /\ files'[name].exists
              /\ ~files[name].exists => files'[name].rows = {}
              /\ files[name].exists
                    => /\ files'[name].rows = files[name].rows
                       /\ \A k \in KeyInputs :
                            getItem(second, <<k>>).result = ValueOf(files[name].rows, k.v)
                       /\ length(second).result
                            = JSNumber(Cardinality(files[name].rows))]_vars

\* an engine constructed, with no other engine in the process, on the file
\* that holds the two entries written before the last exit
C27_Witness ==
    /\ call.op = "new"
    /\ call.outcome = "returned"
    /\ DOMAIN kv = {call.engine}
    /\ fileName[call.engine] = "db.sqlite"
    /\ Cardinality(kv[call.engine]) = 2
    /\ kv[call.engine] = files["db.sqlite"].rows

----------------------------------------------------------------------------
\* a listener raised during the last call: one whose handler throws was
\* called with an event
ListenerRaised ==
    \E j \in 1..Len(deliveries) : listeners[deliveries[j].listener] = "throw"

\* the store before the last call with the write of that call applied
Written ==
    IF call.op = "clear" THEN {}
    ELSE IF call.op = "removeItem" THEN WithoutEntry(Before, ToText(call.args[1]))
    ELSE WithEntry(Before, ToText(call.args[1]), ToText(call.args[2]))

\* C31: a listener exception is not caught: when a listener raises during the
\* dispatch of clear, removeItem or setItem, the call ends with that exception,
\* no listener is called after the one that raised, so the listeners
\* registered after it do not receive the event, and the write made before
\* the dispatch is in the store: the first event shows it, and the store is as
\* the last event published shows it.
C31_ListenerExceptionPropagates ==
    [][(listeners' = listeners /\ ListenerRaised')
        => /\ call'.op \in {"clear", "removeItem", "setItem"}
           /\ call'.outcome = "threw"
           /\ call'.error = "ListenerError"
           /\ \A j \in 1..Len(deliveries') :
                 listeners'[deliveries'[j].listener] = "throw"
                    => /\ j = Len(deliveries')
                       /\ \A i \in (deliveries'[j].listener + 1)..Len(listeners') :
                            \A n \in 1..Len(deliveries') :
                                deliveries'[n] # [listener |-> i,
                                                  payload |-> deliveries'[j].payload]
           /\ TheEvent'.storageArea = MappingOf(Written')
           /\ MappingOf(Store') = events'[Len(events')].payload.storageArea]_vars

\* a setItem whose first listener raised, with a second listener registered
\* after it
C31_Witness ==
    /\ SetItemCalled
    /\ listeners = <<"throw", "ok">>
    /\ call.error = "ListenerError"
    /\ Len(deliveries) = 1
    /\ Store = Written
    /\ Store # Before
    /\ Before # {}

----------------------------------------------------------------------------
\* the last call is a getItem, a key or a read of length, with any arguments
ReadCalled == call.op \in {"getItem", "key", "length"}

\* C32: read operations have no effect: getItem, key and length, with any
\* argument and in any state, whether they return or fail their arity check,
\* leave every entry of the store and its file unchanged, publish no event
\* and call no listener.
C32_ReadsHaveNoEffect ==
    [][ReadCalled'
        => /\ kv' = kv
           /\ files' = files
           /\ kv'[call'.engine] = call'.pre
           /\ events' = <<>>
           /\ deliveries' = <<>>]_vars

\* key(n) returned a key of a store with entries and a listener
C32_Witness ==
    /\ call.op = "key"
    /\ call.outcome = "returned"
    /\ call.result \in KeyInputs
    /\ Cardinality(Store) = 2
    /\ listeners # <<>>

----------------------------------------------------------------------------
\* the key that the last call names, as text, when it is a removeItem or a
\* setItem that was given one; the empty set otherwise
KeyNamed ==
    IF call.op \in {"removeItem", "setItem"} /\ Len(call.args) >= 1
    THEN {ToText(call.args[1])} ELSE {}

\* C33: frame of the single-key mutations: setItem(k, v) and removeItem(k),
\* however they end, change at most the entry of k: for every other key j,
\* getItem(j) returns the same before and after the call, and after a
\* removeItem(k) that passed its arity check getItem(k) is null.
C33_SingleKeyFrame ==
    call.op \in {"removeItem", "setItem"}
        => /\ \A j \in KeyInputs :
                j.v \notin KeyNamed
                    => getItem(Store, <<j>>).result = getItem(Before, <<j>>).result
           /\ \A r \in Store : r.key \notin KeyNamed => r \in Before
           /\ \A r \in Before : r.key \notin KeyNamed => r \in Store
           /\ (call.op = "removeItem" /\ Len(call.args) = 1)
                => getItem(Store, <<call.args[1]>>).result = JSNull

\* a removeItem(k) on a store with the entries of k and of another key
C33_Witness ==
    /\ call.op = "removeItem"
    /\ Len(call.args) = 1
    /\ Cardinality(Before) = 2
    /\ Cardinality(Store) = 1
    /\ \E j \in KeyInputs :
         /\ j # call.args[1]
         /\ getItem(Store, <<j>>).result # JSNull
         /\ getItem(Before, <<call.args[1]>>).result # JSNull

----------------------------------------------------------------------------
\* the usage of the store that the setItem of the last call asks for: that of
\* the store before the call with the entry of its key replaced
ResultingUsage == Usage(Written)

\* C34: quota boundary and weight: each entry is charged
\* 2 * (length(key) + length(value)) bytes, keys included; a setItem whose
\* resulting total usage equals the quota exactly is not rejected for the
\* quota and writes its entry, and one whose resulting total usage is 2 bytes
\* above the quota fails with QuotaExceededError.
C34_QuotaBoundary ==
    (SetItemCalled /\ TheQuota # JSUndefined)
        => /\ calculateSize(Before) = Usage(Before)
           /\ ResultingUsage = TheQuota.n
                => /\ call.error # "QuotaExceededError"
                   /\ Store = Written
           /\ ResultingUsage = TheQuota.n + 2
                => /\ call.error = "QuotaExceededError"
                   /\ Store = Before

----------------------------------------------------------------------------
\* the charge of the entry that the setItem of call c writes
Charge(c) == 2 * (Len(ToText(c.args[1])) + Len(ToText(c.args[2])))

\* C35: the quota is accounted per store: of the two stores of one
\* createStorage call with quota Q, a setItem on one is rejected for the quota
\* only when the usage of that store alone, with the charge of the new entry,
\* is above Q; the usage of that store stays within Q, whatever the other
\* store holds, and the call leaves the other store as it was.
C35_QuotaPerStore ==
    [][(/\ listeners' = listeners
        /\ call'.op = "setItem"
        /\ Len(call'.args) = 2
        /\ quota[call'.engine] # JSUndefined)
        => LET e == call'.engine
               Q == quota[e].n
           IN /\ call'.error = "QuotaExceededError"
                    => /\ Usage(kv[e]) + Charge(call') > Q
                       /\ kv'[e] = kv[e]
              /\ Usage(kv'[e]) <= Q
              /\ \A o \in Others(call') : kv'[o] = kv[o]]_vars

\* both stores hold Q bytes each, the one of the last call by a setItem that
\* was accepted while the other already held Q
C35_Witness ==
    /\ SetItemCalled
    /\ call.error = "none"
    /\ TheQuota # JSUndefined
    /\ Store # Before
    /\ DOMAIN kv = EngineNames
    /\ \A e \in EngineNames : Usage(kv[e]) = TheQuota.n

----------------------------------------------------------------------------
\* C36: shared channel: the two engines of createStorage are on one emitter;
\* every clear, removeItem or setItem that completed its write, on either
\* store, publishes exactly one event on it, which the first listener of the
\* emitter receives; the storageArea of the event is the mapping of the store
\* that was mutated, as the write left it, and the other store, of which the
\* event shows nothing, is as before.
C36_SharedChannel ==
    [][(listeners' = listeners /\ WriteCompleted')
        => LET e == call'.engine
           IN /\ Len(events') = 1
              /\ events'[1].topic = "storage"
              /\ TheEvent'.storageArea = MappingOf(kv'[e])
              /\ kv'[e] = Written'
              /\ call'.pre = kv[e]
              /\ \A o \in Others(call') : kv'[o] = kv[o]
              /\ listeners # <<>>
                    => deliveries'[1] = [listener |-> 1, payload |-> TheEvent']]_vars

\* a listener received the event of a setItem on sessionStorage while
\* localStorage holds an entry of a key that the event does not show
C36_Witness ==
    /\ DOMAIN kv = EngineNames
    /\ SetItemCalled
    /\ call.engine = "sessionStorage"
    /\ Len(deliveries) = 1
    /\ Len(events) = 1
    /\ \E r \in kv["localStorage"] : r.key \notin DOMAIN TheEvent.storageArea
    /\ DOMAIN TheEvent.storageArea # {}

----------------------------------------------------------------------------
\* the last call was made on an engine whose connection is closed, with the
\* number of arguments that its operation requires
ClosedCalled ==
    /\ call.engine \in closed
    /\ Len(call.args) = (IF call.op \in {"clear", "length"} THEN 0
                         ELSE IF call.op = "setItem" THEN 2 ELSE 1)

\* C37: a failure of the backing store during getItem, as on a closed
\* connection, is never raised to the caller: getItem returns null, also for
\* a key that the file holds; the same failure during clear, key, length,
\* removeItem's delete or setItem's write reaches the caller as the store
\* threw it, with nothing written and no event published.
C37_BackingStoreFailure ==
    ClosedCalled
        => /\ call.op = "getItem"
                => /\ call.outcome = "returned"
                   /\ call.error = "none"
                   /\ call.result = JSNull
           /\ call.op \in {"clear", "key", "length", "removeItem", "setItem"}
                => /\ call.outcome = "threw"
                   /\ call.error = "SQLiteError"
           /\ Store = Before
           /\ events = <<>>

\* getItem(k) on a closed connection to a file that holds an entry of k
C37_Witness ==
    /\ ClosedCalled
    /\ call.op = "getItem"
    /\ call.result = JSNull
    /\ fileName[call.engine] = "db.sqlite"
    /\ \E r \in files["db.sqlite"].rows : r.key = call.args[1].v

----------------------------------------------------------------------------
\* C38: shutdown: when the process exits, every engine closes its backing
\* connection; an engine built with ':memory:' first deletes all of its
\* entries, and no change event is published; an engine built on a file path
\* deletes nothing: the file keeps its entries through the hooks and through
\* the end of the process, so that they are there at the next open.
C38_Shutdown ==
    [][/\ call'.op = "exit event"
            => /\ \A e \in DOMAIN kv :
                    /\ e \in closed'
                    /\ fileName[e] = ":memory:" => kv'[e] = {}
                    /\ fileName[e] \in FileNames
                        => /\ kv'[e] = kv[e]
                           /\ kv'[e] = files'[fileName[e]].rows
               /\ files' = files
               /\ events' = <<>>
               /\ deliveries' = <<>>
       /\ call'.op = "exit"
            => /\ files' = files
               /\ events' = <<>>
               /\ DOMAIN kv' = {}]_vars

\* the hooks have run on an engine on ':memory:' that held entries and on an
\* engine on a file that holds entries
C38_Witness ==
    /\ call.op = "exit event"
    /\ call.pre # {}
    /\ \E e \in closed : fileName[e] = ":memory:" /\ kv[e] = {}
    /\ \E e \in closed : fileName[e] = "db.sqlite" /\ kv[e] # {}
    /\ files["db.sqlite"].rows # {}

----------------------------------------------------------------------------
\* the last call is a clear or a removeItem(k)
DeleteCalled ==
    \/ call.op = "clear"
    \/ call.op = "removeItem" /\ Len(call.args) = 1

\* C39 as claimed: removeItem and clear succeed in any state, also in a store
\* whose usage is above the quota, and never increase the usage.
C39_DeletesSucceed ==
    DeleteCalled
        => /\ call.outcome = "returned"
           /\ Usage(Store) <= Usage(Before)

\* C39 as amended: removeItem and clear are never blocked by the quota: in
\* any state, also in a store whose usage is above the configured quota (a
\* file opened again with a smaller quota), they complete their delete, raise
\* nothing but the exception of a listener, after the delete, and never
\* increase the usage; a clear leaves the usage at 0, and a setItem on an
\* empty store whose entry fits the quota is not rejected for the quota and
\* writes its entry.
C39_DeletesNotBlocked ==
    /\ DeleteCalled
        => /\ call.error \in {"none", "ListenerError"}
           /\ (call.outcome = "returned") = (call.error = "none")
           /\ Store = Written
           /\ Usage(Store) <= Usage(Before)
           /\ call.op = "clear" => Usage(Store) = 0
    /\ (SetItemCalled /\ TheQuota # JSUndefined /\ Usage(Before) = 0
            /\ Charge(call) <= TheQuota.n)
        => /\ call.error # "QuotaExceededError"
           /\ Store = Written

\* a removeItem that took an entry from a store whose usage is above its
\* quota, and left it above the quota
C39_Witness ==
    /\ call.op = "removeItem"
    /\ Len(call.args) = 1
    /\ call.outcome = "returned"
    /\ TheQuota # JSUndefined
    /\ Usage(Before) > TheQuota.n
    /\ Usage(Store) < Usage(Before)
    /\ Usage(Store) > TheQuota.n

----------------------------------------------------------------------------
\* initStorages() has just run
SetupRan == auto.pc = "initStorages" /\ auto'.pc = "done"

\* C40: the automatic setup never replaces a global that already exists: no
\* step changes a name that the global object holds; initStorages runs only
\* when the storage directory exists, so the durable store is opened in it;
\* it installs localStorage and sessionStorage for exactly the names that are
\* missing, and when both are present it constructs no engine, opens no file
\* and registers no exit hook.
C40_AutoSetup ==
    [][/\ \A n \in EngineNames :
            auto.globalThis[n] # "absent" => auto'.globalThis[n] = auto.globalThis[n]
       /\ auto'.pc \in {"initStorages", "done"} => auto'.directory
       /\ DOMAIN kv' # DOMAIN kv => auto.directory
       /\ SetupRan
            => /\ \A n \in EngineNames :
                    auto.globalThis[n] = "absent" => auto'.globalThis[n] = "bun-storage"
               /\ (\A n \in EngineNames : auto.globalThis[n] # "absent")
                    => /\ kv' = kv
                       /\ DOMAIN kv' = {}
                       /\ files' = files
                       /\ exitHooks' = exitHooks
               /\ (\E n \in EngineNames : auto.globalThis[n] = "absent")
                    => /\ DOMAIN kv' = EngineNames
                       /\ files'[AutoFile].exists]_vars

\* the setup installed sessionStorage next to a localStorage that was there,
\* and the installed engine is in use
C40_Witness ==
    /\ auto.pc = "done"
    /\ auto.globalThis = [localStorage |-> "other", sessionStorage |-> "bun-storage"]
    /\ call.op = "setItem"
    /\ call.engine = "sessionStorage"
    /\ kv["sessionStorage"] # {}
    /\ kv["localStorage"] = {}

====
